---- MODULE Spec2Model ----
(***************************************************************************)
(* A model of the resilient generation pipeline of ai-author               *)
(* (multi-agent-book-generator): the provider gateway                      *)
(* (core/llm_provider.py), the chunked chapter writer (agents/writer.py),  *)
(* the outline parser (utils/parsing.py), the text metrics                 *)
(* (utils/text_processing.py), the phase orchestrator                      *)
(* (core/orchestrator.py), the fix application of the review agents        *)
(* (agents/dialogue_expert.py, style_reviewer.py, continuity_checker.py)   *)
(* and the JSON parsing of the agents (core/agent.py).                     *)
(*                                                                         *)
(* Every component has its own specification (GatewaySpec, WriterSpec,     *)
(* ChunkSpec, OutlineSpec, StatsSpec, PhrasesSpec, OrchestratorSpec,       *)
(* FixesSpec, JsonSpec); the variables of the other components are parked  *)
(* while one component runs.                                               *)
(*                                                                         *)
(* Text is a sequence of tokens. Python's None is the string "None" for a  *)
(* name and the empty sequence for an optional value (<<v>> when given).   *)
(* Delays are in milliseconds, temperatures in tenths.                     *)
(***************************************************************************)
EXTENDS Integers, Sequences, FiniteSets, TLC

VARIABLES
    \* ---- LLMProvider (core/llm_provider.py) ----
    config,            \* llm_settings: default_provider and rate_limit
    providers,         \* self.providers: name -> [initialized, client]
    gw_pc,             \* position inside generate_text
    args,              \* the arguments of the running generate_text call
    provider,          \* local `provider` after defaulting
    providers_to_try,  \* the fallback chain
    idx,               \* position of the for loop in providers_to_try
    current_max_tokens,
    current_temperature,
    retries,
    delay,
    last_error,
    calls,             \* history: backend calls made by this generate_text call
    sleeps,            \* history: time.sleep calls made by this generate_text call
    raises,            \* history: exceptions that left generate_text
    gw_result,         \* the returned text
    \* ---- WriterAgent (agents/writer.py) ----
    wr_pc,
    wr_entry,          \* the method the caller entered: write_chapter or _write_long_chapter
    target_word_count,
    max_chunks,
    wr_chunks,         \* local `chunks` of _write_long_chapter
    total_words,
    words_per_chunk,
    wr_i,              \* loop variable i of _write_long_chapter
    wr_calls,          \* history: prompts handed to self.generate
    wr_result,
    \* ---- chunk_text (utils/text_processing.py) ----
    ct_pc,
    ct_text,
    max_chunk_size,
    overlap,
    ct_chunks,         \* local `chunks`: the windows as [from, to) offsets and text
    start,
    \* ---- parse_outline (utils/parsing.py) ----
    po_pc,
    outline,
    outline_blocks,    \* the chapters a well-formed outline was written from
    chapter_matches,
    po_i,
    chapter_block,
    chapter_blocks,
    chapters,
    po_result,
    \* ---- calculate_reading_statistics ----
    rs_pc,
    rs_text,
    rs_result,
    \* ---- find_repeated_phrases ----
    fp_pc,
    fp_text,
    min_length,
    min_occurrences,
    fp_result,
    \* ---- BookGenerationOrchestrator (core/orchestrator.py) ----
    or_pc,             \* position inside run() and the phase methods
    save_intermediates,\* config output_settings.save_intermediates
    book_data,         \* self.book_data
    phase_times,       \* the keys of self.metrics["phase_times"], in order of assignment
    phases_begun,      \* history: the "Beginning <phase> phase" log lines
    phase_i,           \* position of the for loop in self.phases
    chapter_i,         \* loop variable i of the chapter loops (0-based)
    chapter,           \* loop variable `chapter` of the refinement and QA loops
    reports,           \* the local reports of the running phase, by report name
    agent_calls,       \* history: calls made to the agents
    saved,             \* history: files written and writes that failed
    or_exc,            \* the exception caught by run(), if any
    run_result,        \* the value returned by run()
    \* ---- apply_fixes (agents/dialogue_expert.py and others) ----
    af_pc,
    af_agent,          \* the agent whose apply_fixes runs
    af_input,          \* the argument `chapter` as the caller passed it
    af_filler,         \* characters of the chapter that no issue quotes
    af_chapter,        \* local `chapter`: the part of the text issues may quote
    af_issues,         \* the argument `issues`
    af_i,              \* position of the replacement loop in issues
    af_replaced,       \* history: the issues applied by chapter.replace
    af_calls,          \* history: the rewrite prompts handed to self.generate
    af_result,         \* the returned chapter
    \* ---- Agent.parse_json_response (core/agent.py) and a caller ----
    pj_pc,
    pj_response,       \* the argument `response`
    pj_default,        \* the argument `default`
    pj_result,         \* the returned value
    pj_exc             \* the exception that left the caller, if any

gwVars == <<config, providers, gw_pc, args, provider, providers_to_try, idx,
            current_max_tokens, current_temperature, retries, delay, last_error,
            calls, sleeps, raises, gw_result>>
wrVars == <<wr_pc, wr_entry, target_word_count, max_chunks, wr_chunks, total_words,
            words_per_chunk, wr_i, wr_calls, wr_result>>
ctVars == <<ct_pc, ct_text, max_chunk_size, overlap, ct_chunks, start>>
poVars == <<po_pc, outline, outline_blocks, chapter_matches, po_i, chapter_block,
           chapter_blocks, chapters, po_result>>
rsVars == <<rs_pc, rs_text, rs_result>>
fpVars == <<fp_pc, fp_text, min_length, min_occurrences, fp_result>>
orVars == <<or_pc, save_intermediates, book_data, phase_times, phases_begun, phase_i,
           chapter_i, chapter, reports, agent_calls, saved, or_exc, run_result>>
afVars == <<af_pc, af_agent, af_input, af_filler, af_chapter, af_issues, af_i,
           af_replaced, af_calls, af_result>>
pjVars == <<pj_pc, pj_response, pj_default, pj_result, pj_exc>>
vars == <<gwVars, wrVars, ctVars, poVars, rsVars, fpVars, orVars, afVars, pjVars>>

\* the variables of all components but one
notGw == <<wrVars, ctVars, poVars, rsVars, fpVars, orVars, afVars, pjVars>>
notWr == <<gwVars, ctVars, poVars, rsVars, fpVars, orVars, afVars, pjVars>>
notCt == <<gwVars, wrVars, poVars, rsVars, fpVars, orVars, afVars, pjVars>>
notPo == <<gwVars, wrVars, ctVars, rsVars, fpVars, orVars, afVars, pjVars>>
notRs == <<gwVars, wrVars, ctVars, poVars, fpVars, orVars, afVars, pjVars>>
notFp == <<gwVars, wrVars, ctVars, poVars, rsVars, orVars, afVars, pjVars>>
notOr == <<gwVars, wrVars, ctVars, poVars, rsVars, fpVars, afVars, pjVars>>
notAf == <<gwVars, wrVars, ctVars, poVars, rsVars, fpVars, orVars, pjVars>>
notPj == <<gwVars, wrVars, ctVars, poVars, rsVars, fpVars, orVars, afVars>>

None == "None"

(***************************************************************************)
(* Generic sequence helpers.                                               *)
(***************************************************************************)
Min(a, b) == IF a <= b THEN a ELSE b
Max(a, b) == IF a >= b THEN a ELSE b

Range(s) == {s[k] : k \in DOMAIN s}

\* s[a..b] with 1-based inclusive bounds; empty when a > b
Slice(s, a, b) == IF a > b THEN <<>> ELSE SubSeq(s, a, b)

RECURSIVE SeqsUpTo(_, _)
\* all sequences over S of length at most n
SeqsUpTo(S, n) ==
    IF n = 0 THEN {<<>>}
    ELSE LET shorter == SeqsUpTo(S, n - 1)
         IN  shorter \cup {Append(s, x) : s \in {t \in shorter : Len(t) = n - 1}, x \in S}

\* the least and the greatest element of a non-empty set of integers
SetMin(S) == CHOOSE x \in S : \A y \in S : x <= y
SetMax(S) == CHOOSE x \in S : \A y \in S : y <= x

RECURSIVE Flatten(_)
\* concatenation of a sequence of sequences
Flatten(ss) == IF ss = <<>> THEN <<>> ELSE Head(ss) \o Flatten(Tail(ss))

RECURSIVE SumSeq(_)
SumSeq(s) == IF s = <<>> THEN 0 ELSE Head(s) + SumSeq(Tail(s))

(***************************************************************************)
(* Parked values: a component that is not running.                         *)
(***************************************************************************)
GatewayOff ==
    /\ config = None /\ providers = None /\ gw_pc = "off" /\ args = None
    /\ provider = None /\ providers_to_try = <<>> /\ idx = 0
    /\ current_max_tokens = 0 /\ current_temperature = 0
    /\ retries = 0 /\ delay = 0 /\ last_error = <<>>
    /\ calls = <<>> /\ sleeps = <<>> /\ raises = <<>> /\ gw_result = <<>>

WriterOff ==
    /\ wr_pc = "off" /\ wr_entry = None /\ target_word_count = 0 /\ max_chunks = 0
    /\ wr_chunks = <<>> /\ total_words = 0 /\ words_per_chunk = 0
    /\ wr_i = 0 /\ wr_calls = <<>> /\ wr_result = <<>>

ChunkOff ==
    /\ ct_pc = "off" /\ ct_text = <<>> /\ max_chunk_size = 0 /\ overlap = 0
    /\ ct_chunks = <<>> /\ start = 0

OutlineOff ==
    /\ po_pc = "off" /\ outline = <<>> /\ outline_blocks = <<>>
    /\ chapter_matches = <<>> /\ po_i = 0 /\ chapter_block = <<>>
    /\ chapter_blocks = <<>> /\ chapters = <<>> /\ po_result = None

StatsOff == rs_pc = "off" /\ rs_text = <<>> /\ rs_result = None

PhrasesOff ==
    /\ fp_pc = "off" /\ fp_text = <<>> /\ min_length = 0 /\ min_occurrences = 0
    /\ fp_result = <<>>

OrchestratorOff ==
    /\ or_pc = "off" /\ save_intermediates = FALSE /\ book_data = None
    /\ phase_times = <<>> /\ phases_begun = <<>> /\ phase_i = 0 /\ chapter_i = 0
    /\ chapter = None /\ reports = None /\ agent_calls = <<>> /\ saved = <<>>
    /\ or_exc = <<>> /\ run_result = <<>>

FixesOff ==
    /\ af_pc = "off" /\ af_agent = None /\ af_input = <<>> /\ af_filler = 0
    /\ af_chapter = <<>> /\ af_issues = <<>> /\ af_i = 0 /\ af_replaced = {}
    /\ af_calls = <<>> /\ af_result = <<>>

JsonOff ==
    /\ pj_pc = "off" /\ pj_response = <<>> /\ pj_default = None /\ pj_result = None
    /\ pj_exc = <<>>

(***************************************************************************)
(*                 LLMProvider  (core/llm_provider.py)                     *)
(***************************************************************************)

\* largest max_retries the model configures
MaxRetriesBound == 3

\* self.providers is filled in this order by _setup_providers
Registration == <<"openai", "gemini">>

\* names a caller may pass as `provider`; "claude" is a name nobody registered
ProviderArgs == {None, "default", "openai", "gemini", "claude"}

\* explicit max_tokens / temperature arguments (temperature in tenths)
MaxTokensArgs == {<<>>, <<0>>, <<100>>}
TemperatureArgs == {<<>>, <<0>>, <<5>>}

\* rate_limit settings: (initial_delay, max_delay) in milliseconds
RateLimits == {<<1000, 3000>>, <<1000, 60000>>, <<4000, 3000>>}

\* llm_settings.providers.<name>: the per-provider defaults
ProviderConfig(p) ==
    IF p = "openai" THEN [max_tokens |-> 4000, default_temperature |-> 7]
    ELSE IF p = "gemini" THEN [max_tokens |-> 8000, default_temperature |-> 9]
    ELSE [max_tokens |-> 4000, default_temperature |-> 7]

\* the state _setup_providers leaves: a client exactly for an initialized provider
ProviderEntry(p, ok) ==
    [initialized |-> ok, client |-> IF ok THEN <<"client", p>> ELSE <<>>]

\* a check that asks only whether the provider is registered
Registered(p) == p \in DOMAIN providers

\* self.providers.get(p, {}).get("initialized", False)
Initialized(p) == p \in DOMAIN providers /\ providers[p].initialized

\* the text the backend of p returns (already stripped)
BackendText(p) == <<"text", p>>

RECURSIVE AppendOthers(_, _)
\* lines 103-105: append every initialized provider not yet in the chain
AppendOthers(chain, rest) ==
    IF rest = <<>> THEN chain
    ELSE LET p == Head(rest)
         IN  IF p \notin Range(chain) /\ Initialized(p)
             THEN AppendOthers(Append(chain, p), Tail(rest))
             ELSE AppendOthers(chain, Tail(rest))

\* a chain that forgets the fallback providers
ProvidersToTryNoFallback(p) == <<p>>

\* a chain that always starts with the first registered provider
ProvidersToTryRegistrationFirst(p) == AppendOthers(<<Registration[1]>>, <<p>> \o Registration)

\* lines 102-105
ProvidersToTry(p) == AppendOthers(<<p>>, Registration)

\* lines 98-99
DefaultedProvider(p) ==
    IF p = None \/ p = "default" THEN config.default_provider ELSE p

\* line 122: max_tokens or provider_config.get("max_tokens", 4000)
CurrentMaxTokens(p) ==
    IF args.max_tokens = <<>> \/ args.max_tokens = <<0>>
    THEN ProviderConfig(p).max_tokens ELSE args.max_tokens[1]

\* line 123: temperature or provider_config.get("default_temperature", 0.7)
CurrentTemperature(p) ==
    IF args.temperature = <<>> \/ args.temperature = <<0>>
    THEN ProviderConfig(p).default_temperature ELSE args.temperature[1]

\* random.uniform(0, 0.1 * delay): the ends and the middle of the interval
Jitters(d) == {0, d \div 20, d \div 10}

GatewayInit ==
    /\ \E dp \in {"openai", "gemini"}, mr \in 0..MaxRetriesBound, rl \in RateLimits :
          config = [default_provider |-> dp, max_retries |-> mr,
                    initial_delay |-> rl[1], max_delay |-> rl[2]]
    /\ \E o \in BOOLEAN, g \in BOOLEAN :
          providers = [p \in Range(Registration) |->
                          ProviderEntry(p, IF p = "openai" THEN o ELSE g)]
    /\ gw_pc = "idle"
    /\ args = [provider |-> None, max_tokens |-> <<>>, temperature |-> <<>>]
    /\ provider = None /\ providers_to_try = <<>> /\ idx = 0
    /\ current_max_tokens = 0 /\ current_temperature = 0
    /\ retries = 0 /\ delay = 0 /\ last_error = <<>>
    /\ calls = <<>> /\ sleeps = <<>> /\ raises = <<>> /\ gw_result = <<>>

\* generate_text is entered: lines 97-114
GenerateText ==
    /\ gw_pc = "idle"
    /\ \E p \in ProviderArgs, mt \in MaxTokensArgs, t \in TemperatureArgs :
          /\ args' = [provider |-> p, max_tokens |-> mt, temperature |-> t]
          /\ provider' = DefaultedProvider(p)
          /\ providers_to_try' = ProvidersToTry(DefaultedProvider(p))
    /\ idx' = 1
    /\ last_error' = <<>>
    /\ retries' = 0 /\ delay' = 0
    /\ current_max_tokens' = 0 /\ current_temperature' = 0
    /\ calls' = <<>> /\ sleeps' = <<>> /\ raises' = <<>> /\ gw_result' = <<>>
    /\ gw_pc' = "for"
    /\ UNCHANGED <<config, providers>>
    /\ UNCHANGED notGw

\* lines 115-118: a provider that is not initialized is skipped
SkipProvider ==
    /\ gw_pc = "for"
    /\ idx <= Len(providers_to_try)
    /\ ~Initialized(providers_to_try[idx])
    /\ idx' = idx + 1
    /\ UNCHANGED <<config, providers, gw_pc, args, provider, providers_to_try,
                   current_max_tokens, current_temperature, retries, delay,
                   last_error, calls, sleeps, raises, gw_result>>
    /\ UNCHANGED notGw

\* lines 120-127: the retry loop of the next provider is set up
EnterProvider ==
    /\ gw_pc = "for"
    /\ idx <= Len(providers_to_try)
    /\ Initialized(providers_to_try[idx])
    /\ current_max_tokens' = CurrentMaxTokens(providers_to_try[idx])
    /\ current_temperature' = CurrentTemperature(providers_to_try[idx])
    /\ retries' = 0
    /\ delay' = config.initial_delay
    /\ gw_pc' = "while"
    /\ UNCHANGED <<config, providers, args, provider, providers_to_try, idx,
                   last_error, calls, sleeps, raises, gw_result>>
    /\ UNCHANGED notGw

\* line 129 with max_retries = 0: the while loop is left without an attempt
NoAttempt ==
    /\ gw_pc = "while"
    /\ ~(retries < config.max_retries)
    /\ idx' = idx + 1
    /\ gw_pc' = "for"
    /\ UNCHANGED <<config, providers, args, provider, providers_to_try,
                   current_max_tokens, current_temperature, retries, delay,
                   last_error, calls, sleeps, raises, gw_result>>
    /\ UNCHANGED notGw

\* the exception a failed backend call raises: each call has its own
BackendError(k) == <<"error", k>>

\* a handler that keeps the first error it saw
LastErrorKeepsFirst(prev, e) == IF prev = <<>> THEN e ELSE prev

\* line 142: last_error = e
LastError(prev, e) == e

\* a retry loop that gives up one attempt early
LastAttemptEarly == retries + 1 >= config.max_retries - 1

\* line 144: retries == max_retries, after retries += 1
LastAttempt == retries + 1 = config.max_retries

\* the record of one backend call
Call(ok) ==
    [provider |-> providers_to_try[idx], max_tokens |-> current_max_tokens,
     temperature |-> current_temperature, ok |-> ok]

\* lines 130-136: the backend call succeeds and its text is returned
AttemptReturns ==
    /\ gw_pc = "while"
    /\ retries < config.max_retries
    /\ calls' = Append(calls, Call(TRUE))
    /\ gw_result' = BackendText(providers_to_try[idx])
    /\ gw_pc' = "returned"
    /\ UNCHANGED <<config, providers, args, provider, providers_to_try, idx,
                   current_max_tokens, current_temperature, retries, delay,
                   last_error, sleeps, raises>>
    /\ UNCHANGED notGw

\* a last failed attempt that sleeps before it goes on to the next provider
AttemptFailsLastSleeps ==
    /\ gw_pc = "while"
    /\ retries < config.max_retries
    /\ LastAttempt
    /\ calls' = Append(calls, Call(FALSE))
    /\ retries' = retries + 1
    /\ last_error' = LastError(last_error, BackendError(Len(calls) + 1))
    /\ \E jitter \in Jitters(delay) :
          sleeps' = Append(sleeps, [provider |-> providers_to_try[idx],
                                    after_call |-> Len(calls) + 1,
                                    delay |-> delay, slept |-> delay + jitter])
    /\ idx' = idx + 1
    /\ gw_pc' = "for"
    /\ UNCHANGED <<config, providers, args, provider, providers_to_try,
                   current_max_tokens, current_temperature, delay,
                   raises, gw_result>>
    /\ UNCHANGED notGw

\* lines 140-146: the last allowed attempt on this provider fails
AttemptFailsLast ==
    /\ gw_pc = "while"
    /\ retries < config.max_retries
    /\ LastAttempt
    /\ calls' = Append(calls, Call(FALSE))
    /\ retries' = retries + 1
    /\ last_error' = LastError(last_error, BackendError(Len(calls) + 1))
    /\ idx' = idx + 1
    /\ gw_pc' = "for"
    /\ UNCHANGED <<config, providers, args, provider, providers_to_try,
                   current_max_tokens, current_temperature, delay,
                   sleeps, raises, gw_result>>
    /\ UNCHANGED notGw

\* lines 140-156: an attempt fails, the call sleeps and the delay is doubled
AttemptFailsSleeps ==
    /\ gw_pc = "while"
    /\ retries < config.max_retries
    /\ ~LastAttempt
    /\ calls' = Append(calls, Call(FALSE))
    /\ retries' = retries + 1
    /\ last_error' = LastError(last_error, BackendError(Len(calls) + 1))
    /\ \E jitter \in Jitters(delay) :
          sleeps' = Append(sleeps, [provider |-> providers_to_try[idx],
                                    after_call |-> Len(calls) + 1,
                                    delay |-> delay, slept |-> delay + jitter])
    /\ delay' = Min(delay * 2, config.max_delay)
    /\ UNCHANGED <<config, providers, gw_pc, args, provider, providers_to_try, idx,
                   current_max_tokens, current_temperature, raises, gw_result>>
    /\ UNCHANGED notGw

\* line 159: every provider of the chain has been passed
RaiseAllFailed ==
    /\ gw_pc = "for"
    /\ idx > Len(providers_to_try)
    /\ raises' = Append(raises, [exception |-> "Exception",
                                 message |-> <<"All providers failed", last_error>>])
    /\ gw_pc' = "raised"
    /\ UNCHANGED <<config, providers, args, provider, providers_to_try, idx,
                   current_max_tokens, current_temperature, retries, delay,
                   last_error, calls, sleeps, gw_result>>
    /\ UNCHANGED notGw

\* the caller has its text or its exception; the gateway is ready for the next call
CallerResumes ==
    /\ gw_pc \in {"returned", "raised"}
    /\ gw_pc' = "idle"
    /\ args' = [provider |-> None, max_tokens |-> <<>>, temperature |-> <<>>]
    /\ provider' = None /\ providers_to_try' = <<>> /\ idx' = 0
    /\ current_max_tokens' = 0 /\ current_temperature' = 0
    /\ retries' = 0 /\ delay' = 0 /\ last_error' = <<>>
    /\ calls' = <<>> /\ sleeps' = <<>> /\ raises' = <<>> /\ gw_result' = <<>>
    /\ UNCHANGED <<config, providers>>
    /\ UNCHANGED notGw

GatewayNext ==
    \/ GenerateText
    \/ SkipProvider
    \/ EnterProvider
    \/ NoAttempt
    \/ AttemptReturns
    \/ AttemptFailsLast
    \/ AttemptFailsSleeps
    \/ RaiseAllFailed
    \/ CallerResumes

GatewaySpecInit ==
    GatewayInit /\ WriterOff /\ ChunkOff /\ OutlineOff /\ StatsOff /\ PhrasesOff
    /\ OrchestratorOff /\ FixesOff /\ JsonOff

GatewaySpec == GatewaySpecInit /\ [][GatewayNext]_vars

(***************************************************************************)
(* Claims about the provider gateway.                                      *)
(***************************************************************************)
\* the preferred provider: the explicit argument, else the configured default
Preferred ==
    IF args.provider \in {None, "default"} THEN config.default_provider
    ELSE args.provider

\* the failover chain the specification describes: the preferred provider,
\* then every other ready provider in registration order
ExpectedChain ==
    (IF Initialized(Preferred) THEN <<Preferred>> ELSE <<>>)
    \o SelectSeq(Registration, LAMBDA q : q # Preferred /\ Initialized(q))

AllReady == \A p \in Range(Registration) : Initialized(p)

GatewayDone == gw_pc \in {"returned", "raised"}

EveryCallTo(p, ok) == \A k \in DOMAIN calls : calls[k].provider = p => calls[k].ok = ok

RECURSIVE Collapse(_)
\* a sequence with consecutive repetitions removed
Collapse(s) ==
    IF Len(s) <= 1 THEN s
    ELSE IF s[1] = s[2] THEN Collapse(Tail(s))
    ELSE <<s[1]>> \o Collapse(Tail(s))

\* the providers in the order they were called
AttemptedOrder == Collapse([k \in DOMAIN calls |-> calls[k].provider])

IsPrefix(s, t) == Len(s) <= Len(t) /\ s = SubSeq(t, 1, Len(s))

\* C1: with two ready providers, max_retries >= 1, every call to the provider
\* tried first failing and every call to the second succeeding, a finished
\* generate_text call has returned the second provider's text and raised nothing.
C1_Failover ==
    (/\ gw_pc \in {"returned", "raised"}
     /\ AllReady
     /\ config.max_retries >= 1
     /\ EveryCallTo(ExpectedChain[1], FALSE)
     /\ EveryCallTo(ExpectedChain[2], TRUE))
    => /\ gw_pc = "returned"
       /\ gw_result = BackendText(ExpectedChain[2])
       /\ raises = <<>>

\* C1 witness: the first provider failed on every attempt and the call returned
\* the text of the second
C1_Witness ==
    /\ gw_pc = "returned"
    /\ AllReady
    /\ Len(calls) = config.max_retries + 1
    /\ \A k \in 1..config.max_retries : calls[k].provider = ExpectedChain[1] /\ ~calls[k].ok
    /\ calls[Len(calls)].provider = ExpectedChain[2]
    /\ gw_result = BackendText(ExpectedChain[2])

\* C2: with every provider ready, generate_text raises only after exactly
\* max_retries x providerCount failed backend calls, raises once, and a call
\* that ends with every backend call failed has raised.
C2_RaisesOnceAfterAllAttempts ==
    (AllReady /\ gw_pc # "idle")
    => /\ gw_pc = "raised" =>
             /\ Len(calls) = config.max_retries * Len(Registration)
             /\ \A k \in DOMAIN calls : ~calls[k].ok
             /\ Len(raises) = 1
       /\ gw_pc # "raised" => raises = <<>>
       /\ (GatewayDone /\ \A k \in DOMAIN calls : ~calls[k].ok) => gw_pc = "raised"

\* C2 witness: both providers were ready, each failed max_retries >= 2 times
\* and the call raised
C2_Witness ==
    /\ gw_pc = "raised"
    /\ AllReady
    /\ config.max_retries >= 2
    /\ Len(calls) = config.max_retries * Len(Registration)
    /\ Len(raises) = 1

\* C10: the providers are attempted in the order of the failover chain (the
\* preferred provider first, then the other ready providers in registration
\* order), none out of order and none twice; a call that raised after real
\* attempts went through the whole chain.
C10_ChainOrder ==
    gw_pc # "idle"
    => /\ IsPrefix(AttemptedOrder, ExpectedChain)
       /\ (gw_pc = "raised" /\ config.max_retries >= 1) => AttemptedOrder = ExpectedChain

\* C10 witness: the explicit argument names the second registered provider
\* while the default is the first, and both were attempted, the argument first
C10_Witness ==
    /\ gw_pc = "raised"
    /\ args.provider = "gemini"
    /\ config.default_provider = "openai"
    /\ AttemptedOrder = <<"gemini", "openai">>

\* the backend calls among the first k that went to provider p and failed
FailedCallsTo(p, k) == {j \in 1..k : calls[j].provider = p /\ ~calls[j].ok}

\* C11: within one generate_text call no provider receives more than
\* max_retries backend calls; whenever a call goes to another provider than
\* the call before it, the provider before has failed exactly max_retries
\* times; and when the call raises, every ready provider of the chain has
\* failed exactly max_retries times (none was abandoned after fewer).
C11_RetryBudget ==
    gw_pc # "idle"
    => /\ \A p \in Range(Registration) :
              Cardinality({k \in DOMAIN calls : calls[k].provider = p})
                  <= config.max_retries
       /\ \A k \in 2..Len(calls) :
              calls[k].provider # calls[k - 1].provider =>
                  Cardinality(FailedCallsTo(calls[k - 1].provider, k - 1))
                      = config.max_retries
       /\ gw_pc = "raised" =>
              \A p \in Range(ExpectedChain) :
                  Cardinality(FailedCallsTo(p, Len(calls))) = config.max_retries

\* C11 witness: with max_retries = 2 the third backend call is the first one
\* to the second provider of the chain
C11_Witness ==
    /\ gw_pc # "idle"
    /\ config.max_retries = 2
    /\ Len(calls) >= 3
    /\ calls[1].provider = calls[2].provider
    /\ calls[3].provider # calls[2].provider

\* which sleep on its provider the i-th sleep of the call is
SleepNumber(i) ==
    Cardinality({j \in 1..i : sleeps[j].provider = sleeps[i].provider})

\* C12: the base delay of the k-th sleep on a provider is
\* min(initial_delay * 2^(k-1), max_delay): it starts again at initial_delay
\* for every provider, doubles after each sleep and never exceeds max_delay,
\* whatever initial_delay and max_delay are configured; each sleep lasts
\* between the base delay and 1.1 times it.
C12_BackoffDelays ==
    \A i \in DOMAIN sleeps :
        /\ sleeps[i].delay =
               Min(config.initial_delay * 2 ^ (SleepNumber(i) - 1), config.max_delay)
        /\ sleeps[i].delay <= config.max_delay
        /\ sleeps[i].delay <= sleeps[i].slept
        /\ 10 * sleeps[i].slept <= 11 * sleeps[i].delay

\* C13: when generate_text raises after backend calls, the error it reports
\* is the error of the last backend call of that call of generate_text, which
\* went to the last provider of the chain; nothing is raised before that.
C13_LastErrorSurfaced ==
    /\ (gw_pc = "raised" /\ calls # <<>>) =>
          /\ ~calls[Len(calls)].ok
          /\ calls[Len(calls)].provider = ExpectedChain[Len(ExpectedChain)]
          /\ raises = <<[exception |-> "Exception",
                         message |-> <<"All providers failed",
                                       BackendError(Len(calls))>>]>>
    /\ gw_pc # "raised" => raises = <<>>

\* C13 witness: two providers failed twice each and the fourth error, not an
\* earlier one, is in the exception
C13_Witness ==
    /\ gw_pc = "raised"
    /\ config.max_retries = 2
    /\ Len(calls) = 4
    /\ calls[1].provider # calls[4].provider
    /\ raises[1].message[2] = BackendError(4)

\* C14: no step of generate_text sends a backend call to a provider whose
\* "initialized" flag is false, the preferred provider included, and no step
\* (of a call that returns or of one that raises, of the first call or of a
\* later one) changes any provider's flag or client.
C14_ReadinessFixed ==
    [][/\ providers' = providers
       /\ \A k \in DOMAIN calls' : providers[calls'[k].provider].initialized]_vars

\* C14 witness: the preferred provider is not ready, the call went through,
\* and every backend call went to the other provider
C14_Witness ==
    /\ gw_pc \in {"returned", "raised"}
    /\ args.provider = "openai"
    /\ ~providers["openai"].initialized
    /\ providers["openai"].client = <<>>
    /\ providers["gemini"].initialized
    /\ Len(calls) >= 2
    /\ \A k \in DOMAIN calls : calls[k].provider = "gemini"

NoneReady == \A p \in Range(Registration) : ~providers[p].initialized

\* the kind of a raised exception: its class and the fixed text of its message
SignalKind(r) == [exception |-> r.exception, text |-> r.message[1]]

\* the kind of the exception line 159 raises after backend calls have failed
AllProvidersExhausted == [exception |-> "Exception", text |-> "All providers failed"]

\* C15 (as claimed): when no provider is ready, generate_text fails with a
\* signal of another kind than the one raised after real attempts, and it has
\* made no backend call and no sleep.
C15_NoProvidersConfigured ==
    (NoneReady /\ gw_pc = "raised")
    => /\ Len(raises) = 1
       /\ SignalKind(raises[1]) # AllProvidersExhausted
       /\ calls = <<>>
       /\ sleeps = <<>>

\* C15 (amended): when no provider is ready, generate_text never enters a
\* retry loop, makes no backend call and no sleep, never returns, and raises
\* the same generic exception as after failed attempts, its last error
\* being None.
C15_NoProvidersSameException ==
    (NoneReady /\ gw_pc # "idle")
    => /\ gw_pc \in {"for", "raised"}
       /\ calls = <<>>
       /\ sleeps = <<>>
       /\ gw_pc = "raised" =>
              raises = <<[exception |-> "Exception",
                          message |-> <<"All providers failed", <<>>>>]>>
       /\ gw_pc # "raised" => raises = <<>>

\* C15 witness: no provider is ready, retries are configured, and the call
\* for a named provider has raised
C15_Witness ==
    /\ NoneReady
    /\ config.max_retries >= 1
    /\ args.provider = "gemini"
    /\ gw_pc = "raised"
    /\ Len(raises) = 1
    /\ calls = <<>>

\* the failed backend calls of the call so far
FailedCalls == {k \in DOMAIN calls : ~calls[k].ok}

\* the providers whose final allowed attempt has failed
Exhausted ==
    {p \in Range(Registration) :
        Cardinality({k \in FailedCalls : calls[k].provider = p}) = config.max_retries
        /\ config.max_retries >= 1}

\* the calls after which the call slept
SleptAfter == {sleeps[j].after_call : j \in DOMAIN sleeps}

\* call k is the final allowed attempt on its provider
FinalAttempt(k) ==
    Cardinality({j \in 1..k : calls[j].provider = calls[k].provider})
        = config.max_retries

\* C38: in generate_text a sleep happens only between two attempts on the
\* same provider: none after a provider's final failed attempt, none after a
\* successful attempt and none before the first attempt on the next
\* provider, so a call with f failed attempts that exhausts p providers
\* sleeps exactly f - p times.
C38_SleepsBetweenAttempts ==
    /\ \A j \in DOMAIN sleeps :
          LET k == sleeps[j].after_call
          IN  /\ k \in FailedCalls /\ ~FinalAttempt(k)
              /\ calls[k].provider = sleeps[j].provider
              /\ \A i \in DOMAIN sleeps : sleeps[i].after_call = k => i = j
              /\ k < Len(calls) => calls[k + 1].provider = calls[k].provider
              /\ GatewayDone => k < Len(calls)
    /\ \A k \in FailedCalls : ~FinalAttempt(k) => k \in SleptAfter
    /\ Len(sleeps) = Cardinality(FailedCalls) - Cardinality(Exhausted)

\* C38 witness: with three attempts allowed the first provider was exhausted
\* and the second answered at its second attempt: four failed attempts, one
\* provider exhausted, three sleeps
C38_Witness ==
    /\ gw_pc = "returned"
    /\ config.max_retries = 3
    /\ Cardinality(FailedCalls) = 4
    /\ Cardinality(Exhausted) = 1
    /\ Len(sleeps) = 3

\* both providers exhausted with one attempt each: no sleep at all
C38_NoSleepWitness ==
    /\ gw_pc = "raised"
    /\ config.max_retries = 1
    /\ Cardinality(Exhausted) = 2
    /\ sleeps = <<>>

\* C39: an explicitly supplied max_tokens or temperature, any value that is
\* not None, 0 included, is passed unchanged to the backend of every provider
\* tried in the chain; the configured default of a provider is used only
\* when the argument is absent.
C39_ExplicitArgsPassed ==
    \A k \in DOMAIN calls :
        /\ calls[k].max_tokens =
               IF args.max_tokens # <<>> THEN args.max_tokens[1]
               ELSE ProviderConfig(calls[k].provider).max_tokens
        /\ calls[k].temperature =
               IF args.temperature # <<>> THEN args.temperature[1]
               ELSE ProviderConfig(calls[k].provider).default_temperature

\* what does hold: an argument that is neither None nor 0 reaches every
\* backend unchanged, and an absent one gives the default of each provider
C39_NonZeroArgsPassed ==
    \A k \in DOMAIN calls :
        /\ args.max_tokens \notin {<<>>, <<0>>} => calls[k].max_tokens = args.max_tokens[1]
        /\ args.temperature \notin {<<>>, <<0>>} =>
               calls[k].temperature = args.temperature[1]
        /\ args.max_tokens = <<>> =>
               calls[k].max_tokens = ProviderConfig(calls[k].provider).max_tokens
        /\ args.temperature = <<>> =>
               calls[k].temperature = ProviderConfig(calls[k].provider).default_temperature

(***************************************************************************)
(*                 WriterAgent  (agents/writer.py)                         *)
(*                                                                         *)
(* A text is a sequence of tokens [kind, n, of]: kind "words" is a run of  *)
(* n >= 1 one-letter words separated by single spaces, produced by the     *)
(* of-th generate call; kind "ws" is whitespace of n characters.  Two      *)
(* adjacent runs touch: the last word of the first and the first word of   *)
(* the second are one word.                                                *)
(***************************************************************************)

\* largest max_chunks a direct caller of _write_long_chapter passes
MaxChunksBound == 3

\* line 81: target_word_count > 3000
SingleCallThreshold == 3000
\* line 86: max_chunks: int = 3
DefaultMaxChunks == 3
\* line 100: min(2500, ...)
ChunkWordsCap == 2500
\* line 120: remaining_words < 1000
SmallRemainder == 1000
\* line 131: chunks[-1][-500:]
TailChars == 500

Words(n, k) == [kind |-> "words", n |-> n, of |-> k]
Space == [kind |-> "ws", n |-> 1, of |-> 0]
\* the "\n\n" of line 144
ParagraphSeparator == [kind |-> "ws", n |-> 2, of |-> 0]

\* chapter_info["word_count"] values around the thresholds of the code
Targets == {1000, 2999, 3000, 3001, 5000, 9000}

\* the texts a generate call may return, as word counts of their runs
\* (0 stands for a space between two runs); the backend strips its answer
ResponseShapes ==
    {<<>>, <<999>>, <<1000, 0, 1500>>, <<2000, 1002>>, <<3001>>, <<6000>>}

\* the text of shape sh returned by the k-th generate call
Response(sh, k) == [j \in DOMAIN sh |-> IF sh[j] = 0 THEN Space ELSE Words(sh[j], k)]

RECURSIVE SplitCount(_)
\* len(text.split()): the number of maximal runs of non-whitespace characters
SplitCount(t) ==
    IF t = <<>> THEN 0
    ELSE IF Head(t).kind = "ws" THEN SplitCount(Tail(t))
    ELSE Head(t).n + SplitCount(Tail(t))
         - (IF Len(t) >= 2 /\ t[2].kind = "words" THEN 1 ELSE 0)

\* the number of characters of a token
TokenChars(tok) == IF tok.kind = "ws" THEN tok.n ELSE 2 * tok.n - 1

RECURSIVE LastChars(_, _)
\* text[-c:]: the last c characters; a run cut in the middle keeps its last
\* words, preceded by the space before them when the cut falls on it
LastChars(t, c) ==
    IF t = <<>> \/ c <= 0 THEN <<>>
    ELSE LET tok == t[Len(t)]
             front == SubSeq(t, 1, Len(t) - 1)
         IN  IF TokenChars(tok) <= c
             THEN Append(LastChars(front, c - TokenChars(tok)), tok)
             ELSE IF tok.kind = "ws" THEN <<[tok EXCEPT !.n = c]>>
             ELSE IF c % 2 = 1 THEN <<[tok EXCEPT !.n = (c + 1) \div 2]>>
             ELSE <<Space, [tok EXCEPT !.n = c \div 2]>>

RECURSIVE JoinParagraphs(_)
\* "\n\n".join(chunks)
JoinParagraphs(cs) ==
    IF cs = <<>> THEN <<>>
    ELSE IF Len(cs) = 1 THEN cs[1]
    ELSE cs[1] \o <<ParagraphSeparator>> \o JoinParagraphs(Tail(cs))

\* a threshold test that uses the per-chunk cap instead of the threshold
NeedsChunkingAtCap(t) == t > ChunkWordsCap

\* line 81
NeedsChunking(t) == t > SingleCallThreshold

\* a loop that stops only once the target is exceeded
ReachedTargetStrict == total_words > target_word_count

\* line 114
ReachedTarget == total_words >= target_word_count

\* the chapter prompt of lines 58-78
ChapterPrompt ==
    [kind |-> "chapter", words |-> target_word_count, previous_section |-> <<>>]

\* a continuation prompt that quotes the end of the chapter joined so far
ContinuationPromptOfJoined(wpc) ==
    [kind |-> "continuation", words |-> wpc,
     previous_section |-> LastChars(JoinParagraphs(wr_chunks), TailChars)]

\* the continuation prompt of lines 125-134
ContinuationPrompt(wpc) ==
    [kind |-> "continuation", words |-> wpc,
     previous_section |-> LastChars(wr_chunks[Len(wr_chunks)], TailChars)]

\* one self.generate call: its prompt and what came back
Generated(prompt, ok, text) == [prompt |-> prompt, ok |-> ok, response |-> text]

WriterInit ==
    /\ wr_pc = "idle" /\ wr_entry = None /\ target_word_count = 0 /\ max_chunks = 0
    /\ wr_chunks = <<>> /\ total_words = 0 /\ words_per_chunk = 0
    /\ wr_i = 0 /\ wr_calls = <<>> /\ wr_result = <<>>

\* write_chapter is entered: lines 34-82, and lines 98-100 on the long path
WriteChapter ==
    /\ wr_pc = "idle"
    /\ \E t \in Targets :
          /\ target_word_count' = t
          /\ IF NeedsChunking(t)
             THEN /\ max_chunks' = DefaultMaxChunks
                  /\ words_per_chunk' = Min(ChunkWordsCap, t \div DefaultMaxChunks)
                  /\ wr_pc' = "first"
             ELSE /\ max_chunks' = 0
                  /\ words_per_chunk' = 0
                  /\ wr_pc' = "single"
    /\ wr_entry' = "write_chapter"
    /\ wr_chunks' = <<>> /\ total_words' = 0 /\ wr_i' = 0
    /\ wr_calls' = <<>> /\ wr_result' = <<>>
    /\ UNCHANGED notWr

\* _write_long_chapter is called with its own max_chunks: lines 98-100
WriteLongChapter ==
    /\ wr_pc = "idle"
    /\ \E t \in Targets, mc \in 1..MaxChunksBound :
          /\ target_word_count' = t
          /\ max_chunks' = mc
          /\ words_per_chunk' = Min(ChunkWordsCap, t \div mc)
    /\ wr_entry' = "_write_long_chapter"
    /\ wr_pc' = "first"
    /\ wr_chunks' = <<>> /\ total_words' = 0 /\ wr_i' = 0
    /\ wr_calls' = <<>> /\ wr_result' = <<>>
    /\ UNCHANGED notWr

\* line 84: the single generate call returns
SingleCallReturns ==
    /\ wr_pc = "single"
    /\ \E sh \in ResponseShapes :
          LET text == Response(sh, Len(wr_calls) + 1)
          IN  /\ wr_calls' = Append(wr_calls, Generated(ChapterPrompt, TRUE, text))
              /\ wr_result' = text
    /\ wr_pc' = "returned"
    /\ UNCHANGED <<wr_entry, target_word_count, max_chunks, wr_chunks, total_words,
                   words_per_chunk, wr_i>>
    /\ UNCHANGED notWr

\* line 84: the gateway is exhausted and the exception leaves write_chapter
SingleCallRaises ==
    /\ wr_pc = "single"
    /\ wr_calls' = Append(wr_calls, Generated(ChapterPrompt, FALSE, <<>>))
    /\ wr_pc' = "raised"
    /\ UNCHANGED <<wr_entry, target_word_count, max_chunks, wr_chunks, total_words,
                   words_per_chunk, wr_i, wr_result>>
    /\ UNCHANGED notWr

\* lines 103-110: the first chunk
FirstChunkReturns ==
    /\ wr_pc = "first"
    /\ \E sh \in ResponseShapes :
          LET text == Response(sh, Len(wr_calls) + 1)
          IN  /\ wr_calls' = Append(wr_calls, Generated(ChapterPrompt, TRUE, text))
              /\ wr_chunks' = Append(wr_chunks, text)
              /\ total_words' = total_words + SplitCount(text)
    /\ wr_i' = 2
    /\ wr_pc' = "loop"
    /\ UNCHANGED <<wr_entry, target_word_count, max_chunks, words_per_chunk, wr_result>>
    /\ UNCHANGED notWr

\* line 104 raises
FirstChunkRaises ==
    /\ wr_pc = "first"
    /\ wr_calls' = Append(wr_calls, Generated(ChapterPrompt, FALSE, <<>>))
    /\ wr_pc' = "raised"
    /\ UNCHANGED <<wr_entry, target_word_count, max_chunks, wr_chunks, total_words,
                   words_per_chunk, wr_i, wr_result>>
    /\ UNCHANGED notWr

\* a break that returns the chunk generated last instead of the joined chunks
LoopBreaksReturnsLastChunk ==
    /\ wr_pc = "loop"
    /\ wr_i <= max_chunks
    /\ ReachedTarget
    /\ wr_result' = wr_chunks[Len(wr_chunks)]
    /\ wr_pc' = "returned"
    /\ UNCHANGED <<wr_entry, target_word_count, max_chunks, wr_chunks, total_words,
                   words_per_chunk, wr_i, wr_calls>>
    /\ UNCHANGED notWr

\* lines 113-115 and 143-145: the loop breaks because the target is reached
LoopBreaks ==
    /\ wr_pc = "loop"
    /\ wr_i <= max_chunks
    /\ ReachedTarget
    /\ wr_result' = JoinParagraphs(wr_chunks)
    /\ wr_pc' = "returned"
    /\ UNCHANGED <<wr_entry, target_word_count, max_chunks, wr_chunks, total_words,
                   words_per_chunk, wr_i, wr_calls>>
    /\ UNCHANGED notWr

\* lines 113 and 143-145: range(2, max_chunks + 1) is used up
LoopEnds ==
    /\ wr_pc = "loop"
    /\ wr_i > max_chunks
    /\ wr_result' = JoinParagraphs(wr_chunks)
    /\ wr_pc' = "returned"
    /\ UNCHANGED <<wr_entry, target_word_count, max_chunks, wr_chunks, total_words,
                   words_per_chunk, wr_i, wr_calls>>
    /\ UNCHANGED notWr

\* line 117-121: the words asked of the next chunk
NextWordsPerChunk ==
    IF target_word_count - total_words < SmallRemainder
    THEN target_word_count - total_words ELSE words_per_chunk

\* lines 117-141: one more chunk
NextChunkReturns ==
    /\ wr_pc = "loop"
    /\ wr_i <= max_chunks
    /\ ~ReachedTarget
    /\ words_per_chunk' = NextWordsPerChunk
    /\ \E sh \in ResponseShapes :
          LET text == Response(sh, Len(wr_calls) + 1)
          IN  /\ wr_calls' = Append(wr_calls,
                     Generated(ContinuationPrompt(NextWordsPerChunk), TRUE, text))
              /\ wr_chunks' = Append(wr_chunks, text)
              /\ total_words' = total_words + SplitCount(text)
    /\ wr_i' = wr_i + 1
    /\ UNCHANGED <<wr_pc, wr_entry, target_word_count, max_chunks, wr_result>>
    /\ UNCHANGED notWr

\* line 136 raises: the chunks generated so far are lost with the frame
NextChunkRaises ==
    /\ wr_pc = "loop"
    /\ wr_i <= max_chunks
    /\ ~ReachedTarget
    /\ words_per_chunk' = NextWordsPerChunk
    /\ wr_calls' = Append(wr_calls,
           Generated(ContinuationPrompt(NextWordsPerChunk), FALSE, <<>>))
    /\ wr_pc' = "raised"
    /\ UNCHANGED <<wr_entry, target_word_count, max_chunks, wr_chunks, total_words,
                   wr_i, wr_result>>
    /\ UNCHANGED notWr

\* the caller has the chapter or the exception
WriterCallerResumes ==
    /\ wr_pc \in {"returned", "raised"}
    /\ wr_pc' = "idle" /\ wr_entry' = None /\ target_word_count' = 0 /\ max_chunks' = 0
    /\ wr_chunks' = <<>> /\ total_words' = 0 /\ words_per_chunk' = 0
    /\ wr_i' = 0 /\ wr_calls' = <<>> /\ wr_result' = <<>>
    /\ UNCHANGED notWr

WriterNext ==
    \/ WriteChapter
    \/ WriteLongChapter
    \/ SingleCallReturns
    \/ SingleCallRaises
    \/ FirstChunkReturns
    \/ FirstChunkRaises
    \/ LoopBreaks
    \/ LoopEnds
    \/ NextChunkReturns
    \/ NextChunkRaises
    \/ WriterCallerResumes

WriterSpecInit ==
    WriterInit /\ GatewayOff /\ ChunkOff /\ OutlineOff /\ StatsOff /\ PhrasesOff
    /\ OrchestratorOff /\ FixesOff /\ JsonOff

WriterSpec == WriterSpecInit /\ [][WriterNext]_vars

(***************************************************************************)
(* Claims about the chapter writer.                                        *)
(***************************************************************************)
\* the accumulated word count of the first k calls' answers, each measured
\* by whitespace tokenization
Accumulated(k) == SumSeq([j \in 1..k |-> SplitCount(wr_calls[j].response)])

\* the state is inside or after a run of _write_long_chapter
InLongChapter == wr_pc \in {"loop", "returned", "raised"} /\ max_chunks >= 1

\* C3: chunked generation makes between 1 and max_chunks gateway calls; after
\* the k-th chunk a further call is made if and only if the accumulated word
\* count is below the target and k < max_chunks.
C3_ChunkCalls ==
    InLongChapter =>
       /\ 1 <= Len(wr_calls) /\ Len(wr_calls) <= max_chunks
       /\ \A k \in 1..(Len(wr_calls) - 1) :
             Accumulated(k) < target_word_count /\ k < max_chunks
       /\ wr_pc = "returned" =>
             /\ wr_calls[Len(wr_calls)].ok
             /\ (Accumulated(Len(wr_calls)) >= target_word_count
                 \/ Len(wr_calls) = max_chunks)

\* C3 witness: the first chunk reached a target that needs chunking and the
\* chapter was returned after one call although more chunks were allowed
C3_Witness ==
    /\ wr_pc = "returned"
    /\ NeedsChunking(target_word_count)
    /\ max_chunks >= 2
    /\ Len(wr_calls) = 1
    /\ Accumulated(1) >= target_word_count

\* C4: for a target below the single-call threshold write_chapter makes exactly
\* one gateway call and returns that call's text unchanged.
C4_SingleCall ==
    (/\ wr_entry = "write_chapter"
     /\ wr_pc \in {"returned", "raised"}
     /\ target_word_count < SingleCallThreshold)
    => /\ Len(wr_calls) = 1
       /\ wr_pc = "returned" => wr_calls[1].ok /\ wr_result = wr_calls[1].response

\* C4 witness: a chapter of 2999 words was asked for and the one answer returned
C4_Witness ==
    /\ wr_entry = "write_chapter"
    /\ wr_pc = "returned"
    /\ target_word_count = SingleCallThreshold - 1
    /\ Len(wr_calls) = 1
    /\ wr_result = wr_calls[1].response
    /\ wr_result # <<>>

\* the number of characters of a text
TextChars(t) == SumSeq([j \in DOMAIN t |-> TokenChars(t[j])])

\* C23: in chunked generation the first call carries the caller's seed prompt;
\* the k-th call (k >= 2) comes after chunk k-1 was returned, and the story
\* text of its prompt is the last 500 characters of chunk k-1 and nothing
\* else: no text of the seed prompt, no text of an earlier chunk.
C23_ContinuationContext ==
    InLongChapter =>
        \A k \in DOMAIN wr_calls :
            IF k = 1
            THEN wr_calls[k].prompt = ChapterPrompt
            ELSE /\ wr_calls[k - 1].ok
                 /\ wr_chunks[k - 1] = wr_calls[k - 1].response
                 /\ wr_calls[k].prompt.kind = "continuation"
                 /\ wr_calls[k].prompt.previous_section
                        = LastChars(wr_calls[k - 1].response, TailChars)
                 /\ \A j \in DOMAIN wr_calls[k].prompt.previous_section :
                        wr_calls[k].prompt.previous_section[j].of \in {0, k - 1}

\* C23 witness: three chunks were asked for; the third prompt quotes exactly
\* 500 characters, all of the second chunk, which is longer than that
C23_Witness ==
    /\ InLongChapter
    /\ Len(wr_calls) = 3
    /\ wr_calls[1].response # <<>>
    /\ TextChars(wr_calls[2].response) > TailChars
    /\ TextChars(wr_calls[3].prompt.previous_section) = TailChars

\* a second chunk that came back empty leaves the third prompt without story
\* text, although the first chunk has some
C23_EmptyChunkWitness ==
    /\ InLongChapter
    /\ Len(wr_calls) = 3
    /\ wr_calls[1].response # <<>>
    /\ wr_calls[2].response = <<>>
    /\ wr_calls[3].prompt.previous_section = <<>>

\* where the answer of the k-th call begins in the returned text: after the
\* answers before it and one separator for each of them
ChunkOffset(k) == SumSeq([j \in 1..(k - 1) |-> Len(wr_calls[j].response) + 1])

\* C34: the text returned by chunked generation is exactly the chunks in the
\* order they were generated, joined by a blank-line paragraph separator:
\* no chunk is dropped, duplicated or reordered.
C34_ChunksJoinedInOrder ==
    (InLongChapter /\ wr_pc = "returned") =>
        LET n == Len(wr_calls)
        IN  /\ Len(wr_result) = ChunkOffset(n) + Len(wr_calls[n].response)
            /\ \A k \in 1..n :
                   /\ SubSeq(wr_result, ChunkOffset(k) + 1,
                             ChunkOffset(k) + Len(wr_calls[k].response))
                          = wr_calls[k].response
                   /\ k < n =>
                          wr_result[ChunkOffset(k + 1)] = ParagraphSeparator

\* C34 witness: three chunks were generated, the second one empty, and the
\* returned text has the first and third chunk around two separators
C34_Witness ==
    /\ InLongChapter /\ wr_pc = "returned"
    /\ Len(wr_calls) = 3
    /\ wr_calls[1].response # <<>> /\ wr_calls[3].response # <<>>
    /\ wr_calls[2].response = <<>>
    /\ wr_result = wr_calls[1].response \o <<ParagraphSeparator, ParagraphSeparator>>
                       \o wr_calls[3].response

(***************************************************************************)
(*           chunk_text  (utils/text_processing.py)                        *)
(*                                                                         *)
(* The text is a sequence of characters; offsets are Python's, from 0.     *)
(***************************************************************************)

\* longest text the model chunks
MaxTextLen == 6
\* largest max_chunk_size (and overlap) the model passes
MaxChunkSizeBound == 5

\* a letter and two of the sentence terminators
Characters == {"a", ".", "?"}

\* text[a:b] for 0 <= a, b <= len(text)
PySlice(t, a, b) == Slice(t, a + 1, Min(b, Len(t)))

\* text[a:] for a >= 0
PyFrom(t, a) == Slice(t, a + 1, Len(t))

\* text.rfind(ch, a, b): the highest offset in [a, b) holding ch, else -1
RFind(t, ch, a, b) ==
    LET hits == {i \in a..(b - 1) : t[i + 1] = ch}
    IN  IF hits = {} THEN 0 - 1 ELSE CHOOSE i \in hits : \A j \in hits : j <= i

Max3(a, b, c) == Max(a, Max(b, c))

\* a window end that takes the sentence boundary from the midpoint on
WindowEndFromMidpoint(t, st, size) ==
    LET end == Min(st + size, Len(t))
    IN  IF end < Len(t)
        THEN LET last_period == RFind(t, ".", st, end)
                 last_question == RFind(t, "?", st, end)
                 last_exclamation == RFind(t, "!", st, end)
                 sentence_end == Max3(last_period, last_question, last_exclamation)
             IN  IF sentence_end >= st + size \div 2 THEN sentence_end + 1 ELSE end
        ELSE end

\* lines 30-44: the end of the window that starts at st
WindowEnd(t, st, size) ==
    LET end == Min(st + size, Len(t))
    IN  IF end < Len(t)
        THEN LET last_period == RFind(t, ".", st, end)
                 last_question == RFind(t, "?", st, end)
                 last_exclamation == RFind(t, "!", st, end)
                 sentence_end == Max3(last_period, last_question, last_exclamation)
             IN  IF sentence_end > st + size \div 2 THEN sentence_end + 1 ELSE end
        ELSE end

\* a next start that steps back by the overlap whenever it does not go below
\* the start of the window
NextStartNotBelow(st, end, ov) == IF end - ov >= st THEN end - ov ELSE end

\* line 50: the start of the next window
NextStart(st, end, ov) == IF end - ov > st THEN end - ov ELSE end

ChunkInit ==
    /\ ct_text \in SeqsUpTo(Characters, MaxTextLen)
    /\ max_chunk_size \in 1..MaxChunkSizeBound
    /\ overlap \in 0..MaxChunkSizeBound
    /\ ct_pc = "call"
    /\ ct_chunks = <<>>
    /\ start = 0

\* lines 22-23: a text that fits is returned as the only window
ChunkTextShort ==
    /\ ct_pc = "call"
    /\ Len(ct_text) <= max_chunk_size
    /\ ct_chunks' = <<[start |-> 0, end |-> Len(ct_text), text |-> ct_text]>>
    /\ ct_pc' = "returned"
    /\ UNCHANGED <<ct_text, max_chunk_size, overlap, start>>
    /\ UNCHANGED notCt

\* lines 25-26
ChunkTextEnters ==
    /\ ct_pc = "call"
    /\ ~(Len(ct_text) <= max_chunk_size)
    /\ ct_chunks' = <<>>
    /\ start' = 0
    /\ ct_pc' = "loop"
    /\ UNCHANGED <<ct_text, max_chunk_size, overlap>>
    /\ UNCHANGED notCt

\* lines 28-50: one pass of the while loop
ChunkLoop ==
    /\ ct_pc = "loop"
    /\ start < Len(ct_text)
    /\ LET end == WindowEnd(ct_text, start, max_chunk_size)
       IN  /\ ct_chunks' = Append(ct_chunks,
                  [start |-> start, end |-> end, text |-> PySlice(ct_text, start, end)])
           /\ start' = NextStart(start, end, overlap)
    /\ UNCHANGED <<ct_pc, ct_text, max_chunk_size, overlap>>
    /\ UNCHANGED notCt

\* lines 28 and 52: the loop is left and the windows are returned
ChunkTextReturns ==
    /\ ct_pc = "loop"
    /\ ~(start < Len(ct_text))
    /\ ct_pc' = "returned"
    /\ UNCHANGED <<ct_text, max_chunk_size, overlap, ct_chunks, start>>
    /\ UNCHANGED notCt

ChunkNext ==
    \/ ChunkTextShort
    \/ ChunkTextEnters
    \/ ChunkLoop
    \/ ChunkTextReturns

ChunkSpecInit ==
    ChunkInit /\ GatewayOff /\ WriterOff /\ OutlineOff /\ StatsOff /\ PhrasesOff
    /\ OrchestratorOff /\ FixesOff /\ JsonOff

ChunkSpec == ChunkSpecInit /\ [][ChunkNext]_vars

\* the texts of the termination check: a letter and one terminator, which is
\* all the choice of a window can tell apart
ChunkLiveInit ==
    /\ ct_text \in SeqsUpTo({"a", "."}, MaxTextLen)
    /\ max_chunk_size \in 1..MaxChunkSizeBound
    /\ overlap \in 0..MaxChunkSizeBound
    /\ ct_pc = "call"
    /\ ct_chunks = <<>>
    /\ start = 0

\* chunk_text is straight-line code and a loop, run by one thread to its end
ChunkLiveSpecInit ==
    ChunkLiveInit /\ GatewayOff /\ WriterOff /\ OutlineOff /\ StatsOff /\ PhrasesOff
    /\ OrchestratorOff /\ FixesOff /\ JsonOff

ChunkLiveSpec == ChunkLiveSpecInit /\ [][ChunkNext]_vars /\ WF_vars(ChunkNext)

(***************************************************************************)
(* Claims about chunk_text.                                                *)
(***************************************************************************)
\* the first window followed by every later window without its first ov
\* characters
Reconstructed(cs, ov) ==
    IF cs = <<>> THEN <<>>
    ELSE cs[1].text \o Flatten([k \in 1..(Len(cs) - 1) |-> PyFrom(cs[k + 1].text, ov)])

\* C5: with max_chunk_size >= 1 and 0 <= overlap < max_chunk_size, a text no
\* longer than max_chunk_size is returned as one window equal to the text, and
\* for a longer text the first window followed by the later windows without
\* their first `overlap` characters is the text.
C5_LosslessReconstruction ==
    (ct_pc = "returned" /\ overlap < max_chunk_size)
    => IF Len(ct_text) <= max_chunk_size
       THEN Len(ct_chunks) = 1 /\ ct_chunks[1].text = ct_text
       ELSE Reconstructed(ct_chunks, overlap) = ct_text

\* every window starts after the window before it
StartsIncrease ==
    \A k \in 1..(Len(ct_chunks) - 1) : ct_chunks[k].start < ct_chunks[k + 1].start

\* C36: chunk_text terminates with a finite list of windows for every text,
\* every max_chunk_size >= 1 and every overlap >= 0, overlap >= max_chunk_size
\* included: the start offset of each window is strictly greater than that of
\* the window before it.
C36_Terminates ==
    /\ [](/\ StartsIncrease
          /\ ct_pc = "loop" /\ ct_chunks # <<>> =>
                 ct_chunks[Len(ct_chunks)].start < start
          /\ Len(ct_chunks) <= Max(1, Len(ct_text)))
    /\ <>(ct_pc = "returned")

\* C36 witness: an overlap larger than max_chunk_size, and three windows
\* were returned
C36_Witness ==
    /\ ct_pc = "returned"
    /\ overlap > max_chunk_size
    /\ Len(ct_chunks) >= 3

\* an overlap below max_chunk_size made a window start before the end of the
\* one before it
C36_OverlapWitness ==
    /\ ct_pc = "returned"
    /\ overlap >= 1 /\ overlap < max_chunk_size
    /\ \E k \in 1..(Len(ct_chunks) - 1) : ct_chunks[k + 1].start < ct_chunks[k].end

\* the windows whose span of max_chunk_size characters ends before the text
InnerWindows == {k \in DOMAIN ct_chunks : ct_chunks[k].start + max_chunk_size < Len(ct_text)}

\* the offsets of the sentence terminators in the span of window k
TerminatorsOf(k) ==
    {i \in ct_chunks[k].start..(ct_chunks[k].start + max_chunk_size - 1) :
        ct_text[i + 1] \in {".", "?", "!"}}

\* the offset of the last terminator in the span of window k
LastTerminator(k) == CHOOSE i \in TerminatorsOf(k) : \A j \in TerminatorsOf(k) : j <= i

\* the character at offset i lies in the back half of the span of window k:
\* it is more than half of max_chunk_size characters after the start
InBackHalf(k, i) == 2 * (i - ct_chunks[k].start) > max_chunk_size

\* the length of window k
WindowLen(k) == ct_chunks[k].end - ct_chunks[k].start

NoWindowTooLong ==
    \A k \in DOMAIN ct_chunks :
        WindowLen(k) <= max_chunk_size /\ Len(ct_chunks[k].text) = WindowLen(k)

\* C37: for every window that does not reach the end of the text, if the last
\* sentence terminator of the span of max_chunk_size characters lies in the
\* back half of the span (more than half of max_chunk_size after its start)
\* the window ends right after it, otherwise the window has exactly
\* max_chunk_size characters; no window is longer than max_chunk_size.
C37_BackHalfBoundary ==
    /\ \A k \in InnerWindows :
          IF TerminatorsOf(k) # {} /\ InBackHalf(k, LastTerminator(k))
          THEN /\ ct_chunks[k].end = LastTerminator(k) + 1
               /\ ct_chunks[k].text[WindowLen(k)] \in {".", "?", "!"}
          ELSE WindowLen(k) = max_chunk_size
    /\ NoWindowTooLong

\* C37 witness: a window that ends right after a terminator of the back half,
\* before the end of its span
C37_Witness ==
    /\ ct_pc = "returned"
    /\ \E k \in InnerWindows :
          /\ TerminatorsOf(k) # {}
          /\ InBackHalf(k, LastTerminator(k))
          /\ ct_chunks[k].end = LastTerminator(k) + 1
          /\ WindowLen(k) < max_chunk_size

\* the last terminator of a span of four characters is two characters after
\* its start, exactly half of max_chunk_size, and the window has four
\* characters
C37_MidpointWitness ==
    /\ ct_pc = "returned"
    /\ max_chunk_size = 4
    /\ \E k \in InnerWindows :
          /\ TerminatorsOf(k) # {}
          /\ LastTerminator(k) = ct_chunks[k].start + 2
          /\ WindowLen(k) = 4

(***************************************************************************)
(*      calculate_reading_statistics  (utils/text_processing.py)           *)
(*                                                                         *)
(* The text is a sequence of characters.  A float is kept as an integer    *)
(* number of hundredths (round(x, 2) * 100), rounded half up from the      *)
(* exact quotient.                                                         *)
(***************************************************************************)

\* most pieces a text of the model is made of
MaxStatsPieces == 3

\* words that reach every branch of count_syllables, and punctuation
StatsPieces ==
    {<<"m", "a", "k", "e">>, <<"t", "a", "b", "l", "e">>, <<"n", "e", "e", "d">>,
     <<"b", "o", "x", "e", "s">>, <<"A">>, <<".">>, <<"!">>, <<" ">>, <<"-">>}

\* str.isspace
IsSpace(c) == c \in {" ", "\n", "\t"}

\* str.lower on the capital letters of the model
Lower(c) ==
    IF c = "A" THEN "a"
    ELSE IF c = "The" THEN "the"
    ELSE IF c = "DARK" THEN "dark"
    ELSE c

LowerText(t) == [k \in DOMAIN t |-> Lower(t[k])]

\* \w of Python's re
IsWordChar(c) ==
    c \in {"a", "b", "d", "e", "k", "l", "m", "n", "o", "s", "t", "x", "y", "A",
           "0", "1", "2", "3", "4", "5", "6", "7", "8", "9", "_"}

RECURSIVE SplitRuns(_, _, _)
\* the maximal runs of items satisfying Keep, in order: SplitRuns(t, Keep, <<>>)
SplitRuns(t, Keep(_), run) ==
    IF t = <<>> THEN (IF run = <<>> THEN <<>> ELSE <<run>>)
    ELSE IF Keep(Head(t)) THEN SplitRuns(Tail(t), Keep, Append(run, Head(t)))
    ELSE (IF run = <<>> THEN <<>> ELSE <<run>>) \o SplitRuns(Tail(t), Keep, <<>>)

\* line 140: re.findall(r'\b\w+\b', text.lower())
FindWords(t) == SplitRuns(LowerText(t), IsWordChar, <<>>)

IsTerminator(c) == c \in {".", "!", "?"}
NotTerminator(c) == ~IsTerminator(c)
NotSpace(c) == ~IsSpace(c)

\* lines 141-142: re.split(r'[.!?]+', text), the pieces that are not blank.
\* The empty pieces re.split returns are blank and so are dropped at once.
FindSentences(t) ==
    SelectSeq(SplitRuns(t, NotTerminator, <<>>),
              LAMBDA seg : \E k \in DOMAIN seg : ~IsSpace(seg[k]))

IsVowel(c) == c \in {"a", "e", "i", "o", "u", "y"}

EndsWith(w, suffix) ==
    Len(w) >= Len(suffix) /\ SubSeq(w, Len(w) - Len(suffix) + 1, Len(w)) = suffix

\* lines 151-160: the number of vowel groups
VowelGroups(w) ==
    Cardinality({k \in DOMAIN w : IsVowel(w[k]) /\ (k = 1 \/ ~IsVowel(w[k - 1]))})

\* lines 145-170
count_syllables(word) ==
    LET w == LowerText(word)
    IN  IF Len(w) <= 3 THEN 1
        ELSE LET c0 == VowelGroups(w)
                 c1 == IF EndsWith(w, <<"e">>) /\ ~EndsWith(w, <<"l", "e">>)
                       THEN c0 - 1 ELSE c0
                 c2 == IF EndsWith(w, <<"e", "s">>) \/ EndsWith(w, <<"e", "d">>)
                       THEN c1 - 1 ELSE c1
             IN  IF c2 = 0 THEN 1 ELSE c2

\* a quotient: a pair <<numerator, denominator>>; Python raises
\* ZeroDivisionError when the denominator is 0
Quotient(a, b) == <<a, b>>
Raises(q) == q[2] = 0

\* the integer nearest to a quotient with a denominator > 0
RoundQuotient(q) == (2 * q[1] + q[2]) \div (2 * q[2])

\* round(q, 2) in hundredths
Hundredths(q) == RoundQuotient(Quotient(100 * q[1], q[2]))

\* the quotient without the guard of line 189
AvgSyllablesUnguarded(syllable_count, word_count) == Quotient(syllable_count, word_count)

\* line 189: syllable_count / word_count if word_count > 0 else 0
AvgSyllablesPerWord(syllable_count, word_count) ==
    IF word_count > 0 THEN Quotient(syllable_count, word_count) ELSE Quotient(0, 1)

\* lines 139-200
ReadingStatistics(t) ==
    LET words == FindWords(t)
        sentences == FindSentences(t)
        word_count == Len(words)
        sentence_count == Len(sentences)
        syllable_count == SumSeq([k \in DOMAIN words |-> count_syllables(words[k])])
        avg_words_per_sentence == Quotient(word_count, sentence_count)
        avg_syllables_per_word == AvgSyllablesPerWord(syllable_count, word_count)
        \* line 192 in hundredths: 39 * a/b + 1180 * c/d - 1559
        flesch_kincaid ==
            Quotient(39 * avg_words_per_sentence[1] * avg_syllables_per_word[2]
                       + 1180 * avg_syllables_per_word[1] * avg_words_per_sentence[2]
                       - 1559 * avg_words_per_sentence[2] * avg_syllables_per_word[2],
                     avg_words_per_sentence[2] * avg_syllables_per_word[2])
    IN  IF sentence_count = 0
        THEN [raised |-> FALSE, word_count |-> word_count, sentence_count |-> 0,
              avg_words_per_sentence |-> 0, avg_syllables_per_word |-> 0,
              flesch_kincaid |-> 0]
        ELSE IF Raises(avg_words_per_sentence) \/ Raises(avg_syllables_per_word)
        THEN [raised |-> TRUE, word_count |-> 0, sentence_count |-> 0,
              avg_words_per_sentence |-> 0, avg_syllables_per_word |-> 0,
              flesch_kincaid |-> 0]
        ELSE [raised |-> FALSE, word_count |-> word_count,
              sentence_count |-> sentence_count,
              avg_words_per_sentence |-> Hundredths(avg_words_per_sentence),
              avg_syllables_per_word |-> Hundredths(avg_syllables_per_word),
              flesch_kincaid |-> RoundQuotient(flesch_kincaid)]

StatsInit ==
    /\ rs_text \in {Flatten(ps) : ps \in SeqsUpTo(StatsPieces, MaxStatsPieces)}
    /\ rs_pc = "call"
    /\ rs_result = None

CalculateReadingStatistics ==
    /\ rs_pc = "call"
    /\ rs_result' = ReadingStatistics(rs_text)
    /\ rs_pc' = "done"
    /\ UNCHANGED rs_text
    /\ UNCHANGED notRs

StatsNext == CalculateReadingStatistics

StatsSpecInit ==
    StatsInit /\ GatewayOff /\ WriterOff /\ ChunkOff /\ OutlineOff /\ PhrasesOff
    /\ OrchestratorOff /\ FixesOff /\ JsonOff

StatsSpec == StatsSpecInit /\ [][StatsNext]_vars

(***************************************************************************)
(* Claims about calculate_reading_statistics.                              *)
(***************************************************************************)
\* a text without a sentence: nothing but sentence terminators and whitespace
NoSentences(t) == \A k \in DOMAIN t : IsTerminator(t[k]) \/ IsSpace(t[k])

\* C8: calculate_reading_statistics never raises, and for a text without
\* sentences every statistic it returns is 0.
C8_StatsNeverRaise ==
    rs_pc = "done"
    => /\ ~rs_result.raised
       /\ NoSentences(rs_text) =>
             /\ rs_result.word_count = 0
             /\ rs_result.sentence_count = 0
             /\ rs_result.avg_words_per_sentence = 0
             /\ rs_result.avg_syllables_per_word = 0
             /\ rs_result.flesch_kincaid = 0
       /\ rs_result.sentence_count = 0 => NoSentences(rs_text)

\* C8 witness: the statistics of a text of punctuation and whitespace, which
\* has no sentence, were computed and are all zero
C8_Witness ==
    /\ rs_pc = "done"
    /\ rs_text = <<".", " ", "!">>
    /\ ~rs_result.raised
    /\ rs_result.word_count = 0
    /\ rs_result.sentence_count = 0
    /\ rs_result.flesch_kincaid = 0

\* a text of punctuation that is a sentence without a word: the average of
\* syllables per word is not divided by zero
C8_WitnessNoWords ==
    /\ rs_pc = "done"
    /\ rs_text = <<"-", "-", "-">>
    /\ ~rs_result.raised
    /\ rs_result.word_count = 0
    /\ rs_result.sentence_count = 1
    /\ rs_result.flesch_kincaid = 0 - 1559

(***************************************************************************)
(*        find_repeated_phrases  (utils/text_processing.py)                *)
(*                                                                         *)
(* The text is a sequence of tokens: whitespace tokens and word tokens.    *)
(* Word tokens that touch are one word, so a word is a sequence of tokens  *)
(* and a phrase (the words joined by single spaces) a sequence of words.   *)
(***************************************************************************)

\* most words of an enumerated text
MaxPhraseWords == 5

PhraseWords == {"The", "the", "dark"}

\* min_length and min_occurrences arguments (the defaults are 3 and 3)
MinLengths == {0, 1, 3}
MinOccurrences == {1, 3}

RECURSIVE JoinWords(_, _)
\* the words ws with the whitespace sep between them
JoinWords(ws, sep) ==
    IF ws = <<>> THEN <<>>
    ELSE IF Len(ws) = 1 THEN <<ws[1]>>
    ELSE <<ws[1]>> \o sep \o JoinWords(Tail(ws), sep)

\* a text with a given trigram five times, in changing case, and other words
\* between its occurrences
DarkForestText ==
    JoinWords(<<"The", "dark", "forest", "the", "dark", "forest", "dark", "the",
                "DARK", "forest", "the", "dark", "forest", "The", "dark",
                "forest", "dark">>, <<" ">>)

\* the texts the model analyses
PhraseTexts ==
    {JoinWords(ws, <<" ">>) : ws \in SeqsUpTo(PhraseWords, MaxPhraseWords)}
    \cup {<<" ">> \o JoinWords(ws, <<"\n", " ">>) \o <<"\n">> :
             ws \in SeqsUpTo(PhraseWords, MaxPhraseWords)}
    \cup {DarkForestText, <<"the", "dark", " ", "the", "dark", " ", "the", "dark">>}

\* a window range that misses the last window
WindowStartsShort(n_words, n) == 0..(n_words - n - 1)

\* line 340: range(len(words) - min_length + 1)
WindowStarts(n_words, n) == 0..(n_words - n)

\* line 342 on the insertion-ordered dict d, a sequence of <<phrase, count>>
Increment(d, phrase) ==
    IF \E k \in DOMAIN d : d[k][1] = phrase
    THEN [k \in DOMAIN d |-> IF d[k][1] = phrase THEN <<phrase, d[k][2] + 1>> ELSE d[k]]
    ELSE Append(d, <<phrase, 1>>)

RECURSIVE CountPhrases(_, _, _, _)
\* lines 340-342 from window i on
CountPhrases(words, n, i, d) ==
    IF i \notin WindowStarts(Len(words), n) THEN d
    ELSE CountPhrases(words, n, i + 1, Increment(d, Slice(words, i + 1, i + n)))

RECURSIVE InsertByCount(_, _)
\* e put into the sorted sequence s behind every entry whose count is not smaller
InsertByCount(s, e) ==
    IF s = <<>> THEN <<e>>
    ELSE IF Head(s)[2] >= e[2] THEN <<Head(s)>> \o InsertByCount(Tail(s), e)
    ELSE <<e>> \o s

RECURSIVE SortByCountDescending(_)
\* line 348: the stable sort by count, largest first
SortByCountDescending(s) ==
    IF s = <<>> THEN <<>>
    ELSE InsertByCount(SortByCountDescending(SubSeq(s, 1, Len(s) - 1)), s[Len(s)])

\* lines 334-335: text.lower().split()
LowerWords(t) == SplitRuns(LowerText(t), NotSpace, <<>>)

\* lines 333-350
RepeatedPhrases(t, n, m) ==
    LET words == LowerWords(t)
        phrases == CountPhrases(words, n, 0, <<>>)
        repeated == SelectSeq(phrases, LAMBDA e : e[2] >= m)
    IN  SortByCountDescending(repeated)

PhrasesInit ==
    /\ fp_text \in PhraseTexts
    /\ min_length \in MinLengths
    /\ min_occurrences \in MinOccurrences
    /\ fp_pc = "call"
    /\ fp_result = <<>>

FindRepeatedPhrases ==
    /\ fp_pc = "call"
    /\ fp_result' = RepeatedPhrases(fp_text, min_length, min_occurrences)
    /\ fp_pc' = "done"
    /\ UNCHANGED <<fp_text, min_length, min_occurrences>>
    /\ UNCHANGED notFp

PhrasesNext == FindRepeatedPhrases

PhrasesSpecInit ==
    PhrasesInit /\ GatewayOff /\ WriterOff /\ ChunkOff /\ OutlineOff /\ StatsOff
    /\ OrchestratorOff /\ FixesOff /\ JsonOff

PhrasesSpec == PhrasesSpecInit /\ [][PhrasesNext]_vars

(***************************************************************************)
(* Claims about find_repeated_phrases.                                     *)
(***************************************************************************)
\* the number of sliding windows of min_length words that hold the phrase g
Occurrences(g) ==
    LET words == LowerWords(fp_text)
    IN  Cardinality({i \in 0..(Len(words) - min_length) :
                        Slice(words, i + 1, i + min_length) = g})

\* the min_length-grams of the text
Grams ==
    LET words == LowerWords(fp_text)
    IN  {Slice(words, i + 1, i + min_length) : i \in 0..(Len(words) - min_length)}

\* C9: the result holds exactly the min_length-grams of the lower-cased
\* whitespace tokens that occur at least min_occurrences times, each once and
\* with its number of occurrences, in an order of non-increasing counts.
C9_RepeatedPhrases ==
    fp_pc = "done"
    => /\ {fp_result[k][1] : k \in DOMAIN fp_result}
             = {g \in Grams : Occurrences(g) >= min_occurrences}
       /\ \A k \in DOMAIN fp_result : fp_result[k][2] = Occurrences(fp_result[k][1])
       /\ \A j, k \in DOMAIN fp_result : fp_result[j][1] = fp_result[k][1] => j = k
       /\ \A k \in 1..(Len(fp_result) - 1) : fp_result[k][2] >= fp_result[k + 1][2]

\* C9 witness: the trigram "the dark forest" occurs five times and is reported
\* with count 5 under the thresholds 3 and 3
C9_Witness ==
    /\ fp_pc = "done"
    /\ fp_text = DarkForestText
    /\ min_length = 3
    /\ min_occurrences = 3
    /\ Len(fp_result) = 3
    /\ fp_result[1] = << << <<"the">>, <<"dark">>, <<"forest">> >>, 5 >>
    /\ fp_result[2][2] = 3

(***************************************************************************)
(*              parse_outline  (utils/parsing.py)                          *)
(*                                                                         *)
(* The outline is a sequence of tokens, each the literal text it shows:    *)
(* "Chapter", "Summary", "Estimated", "word", "count", "words", "Target",  *)
(* single digits, ":", ",", "-", " ", "\n", and the words "T" and "x".     *)
(* The regular expressions of the code are matched token by token; an      *)
(* operator that tries a pattern at a position yields the set of its       *)
(* matches there, which is empty or has one element.                       *)
(***************************************************************************)

\* most pieces of an arbitrary outline text
MaxOutlinePieces == 3
\* most chapters of a well-formed outline
MaxOutlineChapters == 3

\* lines 63, 65 and 123
DefaultWordCount == 3000

DigitTokens == <<"0", "1", "2", "3", "4", "5", "6", "7", "8", "9">>
IsDigit(c) == c \in Range(DigitTokens)
DigitValue(c) == (CHOOSE k \in DOMAIN DigitTokens : DigitTokens[k] = c) - 1

RECURSIVE ToInt(_)
\* int(s) for a string of digits
ToInt(ds) ==
    IF ds = <<>> THEN 0
    ELSE 10 * ToInt(SubSeq(ds, 1, Len(ds) - 1)) + DigitValue(ds[Len(ds)])

RECURSIVE ToDigits(_)
\* str(n) for n >= 0
ToDigits(n) ==
    IF n < 10 THEN <<DigitTokens[n + 1]>>
    ELSE Append(ToDigits(n \div 10), DigitTokens[(n % 10) + 1])

\* t starts with the literal lit at position i
StartsWith(t, i, lit) ==
    i >= 1 /\ i + Len(lit) - 1 <= Len(t) /\ SubSeq(t, i, i + Len(lit) - 1) = lit

\* \s* from i: the position behind the whitespace
SkipSpaces(t, i) ==
    SetMin({j \in i..(Len(t) + 1) : j = Len(t) + 1 \/ ~IsSpace(t[j])})

\* [,\d]* from i
SkipCountChars(t, i) ==
    SetMin({j \in i..(Len(t) + 1) : j = Len(t) + 1 \/ ~(IsDigit(t[j]) \/ t[j] = ",")})

\* [^\n]* from i
LineEnd(t, i) ==
    SetMin({j \in i..(Len(t) + 1) : j = Len(t) + 1 \/ t[j] = "\n"})

\* str.strip
Strip(t) ==
    LET solid == {k \in DOMAIN t : ~IsSpace(t[k])}
    IN  IF solid = {} THEN <<>> ELSE SubSeq(t, SetMin(solid), SetMax(solid))

\* $ without re.MULTILINE: the end, or before a newline that ends the text
EndAnchor(t, j) == j = Len(t) + 1 \/ (j = Len(t) /\ t[j] = "\n")

\* line 24, "Chapter (\d+):" at i: the positions of its colon
NumberedColons(t, i) ==
    IF StartsWith(t, i, <<"Chapter", " ">>)
    THEN {e \in (i + 3)..Len(t) :
             t[e] = ":" /\ \A q \in (i + 2)..(e - 1) : IsDigit(t[q])}
    ELSE {}

\* line 29, "(?:Chapter \d+|Chapter):" at i: the positions of its colon
AnyColons(t, i) ==
    NumberedColons(t, i) \cup {e \in {i + 1} : StartsWith(t, i, <<"Chapter", ":">>)}

\* (?=\n(?:Summary|Estimated)) at j
LookaheadSection(t, j) ==
    j >= 1 /\ j + 1 <= Len(t) /\ t[j] = "\n" /\ t[j + 1] \in {"Summary", "Estimated"}

\* "\s*(.*?)(?=\n(?:Summary|Estimated))" from a: the group is t[from..to-1] and
\* the match ends before `to`.  The lazy group stops at the first section line
\* behind the whitespace; the greedy \s* gives whitespace back only when no
\* section line follows it, and then as little as it can.
TitleSpans(t, a) ==
    {[from |-> IF kj[2] < kj[1] THEN kj[2] ELSE kj[1], to |-> kj[2]] :
        kj \in {kj \in {SkipSpaces(t, a)} \X (a..Len(t)) :
                  /\ LookaheadSection(t, kj[2])
                  /\ \/ /\ kj[2] >= kj[1]
                        /\ \A q \in kj[1]..(kj[2] - 1) : ~LookaheadSection(t, q)
                     \/ /\ kj[2] < kj[1]
                        /\ \A q \in (kj[2] + 1)..Len(t) : ~LookaheadSection(t, q)}}

\* line 24: the match of the numbered pattern that starts at each position
NumberedMatches(t) ==
    [i \in 1..Len(t) |->
        UNION {{[num |-> SubSeq(t, i + 2, e - 1),
                 title |-> Slice(t, m.from, m.to - 1),
                 to |-> m.to] : m \in TitleSpans(t, e + 1)} : e \in NumberedColons(t, i)}]

\* line 29: the match of the pattern that needs no number
AnyMatches(t) ==
    [i \in 1..Len(t) |->
        UNION {{[num |-> <<>>,
                 title |-> Slice(t, m.from, m.to - 1),
                 to |-> m.to] : m \in TitleSpans(t, e + 1)} : e \in AnyColons(t, i)}]

RECURSIVE FindAll(_, _)
\* re.findall: the matches met from position i on, the search going on where
\* the last match ended
FindAll(matches, i) ==
    LET starts == {p \in i..Len(matches) : matches[p] # {}}
    IN  IF starts = {} THEN <<>>
        ELSE LET m == CHOOSE m \in matches[SetMin(starts)] : TRUE
             IN  <<m>> \o FindAll(matches, m.to)

\* lines 30-34
AltMatches(t) ==
    LET alt_matches == FindAll(AnyMatches(t), 1)
    IN  [i \in DOMAIN alt_matches |->
            [num |-> ToDigits(i), title |-> Strip(alt_matches[i].title)]]

\* lines 25-34
ChapterMatches(t) ==
    LET numbered == FindAll(NumberedMatches(t), 1)
    IN  IF numbered # <<>>
        THEN [i \in DOMAIN numbered |-> [num |-> numbered[i].num, title |-> numbered[i].title]]
        ELSE AltMatches(t)

\* f'Chapter {chapter_num}:'
HeaderLiteral(digits) == <<"Chapter", " ">> \o digits \o <<":">>

\* where the block that begins behind a - 1 ends: before the first
\* 'Chapter n+1:' or at the end
BlockEnds(t, a, next) ==
    LET stops == {e \in a..(Len(t) + 1) : StartsWith(t, e, next) \/ EndAnchor(t, e)}
    IN  {e \in stops : \A q \in stops : e <= q}

\* lines 39-40: the blocks the search for the chapter finds, from the first
\* 'Chapter n:' to the first 'Chapter n+1:' or the end
ChapterBlockFound(t, num) ==
    LET starts == {b \in 1..Len(t) : StartsWith(t, b, HeaderLiteral(num))}
    IN  UNION {{Slice(t, b, e - 1) :
                   e \in BlockEnds(t, b + Len(num) + 3,
                                   HeaderLiteral(ToDigits(ToInt(num) + 1)))} :
                 b \in {b \in starts : \A q \in starts : b <= q}}

\* lines 50-52
BlockSummary(b) ==
    LET starts == {p \in 1..Len(b) : StartsWith(b, p, <<"Summary", ":">>)}
        k == SkipSpaces(b, SetMin(starts) + 2)
        ends == {j \in k..(Len(b) + 1) :
                    StartsWith(b, j, <<"\n", "Estimated">>) \/ EndAnchor(b, j)}
    IN  IF starts = {} THEN <<>>
        ELSE Strip(Slice(b, k, SetMin(ends) - 1))

RemoveCommas(g) == SelectSeq(g, LAMBDA c : c # ",")

\* a conversion that forgets the replace(',', ''): int() raises ValueError on a
\* comma and the default is taken
CountValueKeepingCommas(g) ==
    IF \E k \in DOMAIN g : g[k] = "," THEN DefaultWordCount ELSE ToInt(g)

\* lines 59-63: int(group.replace(',', ''))
CountValue(g) == ToInt(RemoveCommas(g))

EstimatedWordCount == <<"Estimated", " ", "word", " ", "count", ":">>

\* line 55, 'Estimated word count:\s*(\d[,\d]*)': where its group starts, for
\* every position the pattern matches at
CountGroups(b) ==
    {SkipSpaces(b, p + Len(EstimatedWordCount)) :
        p \in {p \in 1..Len(b) :
                 /\ StartsWith(b, p, EstimatedWordCount)
                 /\ SkipSpaces(b, p + Len(EstimatedWordCount)) <= Len(b)
                 /\ IsDigit(b[SkipSpaces(b, p + Len(EstimatedWordCount))])}}

\* lines 55-65
BlockWordCount(b) ==
    LET groups == CountGroups(b)
    IN  IF groups = {} THEN DefaultWordCount
        ELSE CountValue(Slice(b, SetMin(groups), SkipCountChars(b, SetMin(groups)) - 1))

RECURSIVE InsertByNumber(_, _)
InsertByNumber(cs, c) ==
    IF cs = <<>> THEN <<c>>
    ELSE IF Head(cs).chapter_num <= c.chapter_num
    THEN <<Head(cs)>> \o InsertByNumber(Tail(cs), c)
    ELSE <<c>> \o cs

RECURSIVE SortByNumber(_)
\* line 83: the stable sort by chapter_num
SortByNumber(cs) ==
    IF cs = <<>> THEN <<>>
    ELSE InsertByNumber(SortByNumber(SubSeq(cs, 1, Len(cs) - 1)), cs[Len(cs)])

(***************************************************************************)
(*              _lenient_parse_outline  (utils/parsing.py)                 *)
(***************************************************************************)

\* line 100, 'Chapter \d+|CHAPTER \d+' at i: the positions behind it
ChapterMarkerEnds(t, i) ==
    IF t[i] \in {"Chapter", "CHAPTER"} /\ i + 1 <= Len(t) /\ t[i + 1] = " "
    THEN {e \in (i + 3)..(Len(t) + 1) :
             /\ \A q \in (i + 2)..(e - 1) : IsDigit(t[q])
             /\ e = Len(t) + 1 \/ ~IsDigit(t[e])}
    ELSE {}

RECURSIVE SplitAtMarkers(_, _)
\* line 100: re.split of the text from position i on
SplitAtMarkers(t, i) ==
    LET starts == {p \in i..Len(t) : ChapterMarkerEnds(t, p) # {}}
    IN  IF starts = {} THEN <<Slice(t, i, Len(t))>>
        ELSE <<Slice(t, i, SetMin(starts) - 1)>>
                 \o SplitAtMarkers(t, SetMin(ChapterMarkerEnds(t, SetMin(starts))))

\* lines 100-104
ChapterBlocks(t) ==
    LET split == SplitAtMarkers(t, 1)
    IN  IF Strip(split[1]) = <<>> THEN Tail(split) ELSE split

\* the class [:\-\u2013\u2014]; the en dash and the em dash are the tokens
\* "EnDash" and "EmDash"
IsDash(c) == c \in {":", "-", "EnDash", "EmDash"}

\* line 111, '[:\-\u2013\u2014]\s*([^\n]+)' at p: where its group starts.  When
\* only whitespace follows the mark, \s* gives back the last character that is
\* not a newline and the group is that whitespace.
TitleGroupStarts(b, p) ==
    IF IsDash(b[p])
    THEN {g \in (p + 1)..Len(b) :
             /\ b[g] # "\n"
             /\ \A q \in (p + 1)..(g - 1) : IsSpace(b[q])
             /\ \/ ~IsSpace(b[g])
                \/ \A q \in (g + 1)..Len(b) : b[q] = "\n"}
    ELSE {}

\* line 111: re.search, <<p, g>> for the first mark p with a match and the
\* start g of its group
TitleMatches(b) ==
    LET marks == {p \in 1..Len(b) : TitleGroupStarts(b, p) # {}}
    IN  UNION {{<<p, g>> : g \in TitleGroupStarts(b, p)} :
                 p \in {p \in marks : \A q \in marks : p <= q}}

\* lines 111-117: the title, and the block without the match
LenientTitle(b, i) ==
    IF TitleMatches(b) = {}
    THEN [title |-> <<"Chapter", " ">> \o ToDigits(i + 1), summary |-> b]
    ELSE CHOOSE r \in {[title |-> Strip(Slice(b, pg[2], LineEnd(b, pg[2]) - 1)),
                        summary |-> Slice(b, 1, pg[1] - 1)
                                        \o Slice(b, LineEnd(b, pg[2]), Len(b))] :
                          pg \in TitleMatches(b)} : TRUE

\* re.IGNORECASE
IsCountKeyword(c) ==
    c \in {"Estimated", "estimated", "Target", "target", "Approximate", "approximate"}

IsWordsToken(c) == c \in {"words", "Words", "WORDS"}

\* line 120, '(?:Estimated|Target|Approximate)[^\d]*(\d[,\d]*)[^\d]*words' at p:
\* <<d, w>> where the group starts at d, the first digit behind the keyword, and
\* the match ends with the last "words" at w that no digit parts from the group
CountMatches(t, p) ==
    IF IsCountKeyword(t[p])
    THEN {dw \in ((p + 1)..Len(t)) \X ((p + 1)..Len(t)) :
             /\ IsDigit(t[dw[1]])
             /\ IsWordsToken(t[dw[2]])
             /\ \A q \in (p + 1)..(dw[1] - 1) : ~IsDigit(t[q])
             /\ dw[2] >= SkipCountChars(t, dw[1])
             /\ \A q \in SkipCountChars(t, dw[1])..Len(t) :
                   /\ IsDigit(t[q]) => q > dw[2]
                   /\ (IsWordsToken(t[q]) /\ q > dw[2]) =>
                          \E x \in dw[2]..q : IsDigit(t[x])}
    ELSE {}

RECURSIVE RemoveCounts(_, _)
\* line 132: re.sub(word_count_pattern, "", summary) from position i on
RemoveCounts(t, i) ==
    LET starts == {p \in i..Len(t) : CountMatches(t, p) # {}}
    IN  IF starts = {} THEN Slice(t, i, Len(t))
        ELSE Slice(t, i, SetMin(starts) - 1)
                 \o RemoveCounts(t, (CHOOSE dw \in CountMatches(t, SetMin(starts)) : TRUE)[2] + 1)

\* lines 120-135: the summary s without its counts, and the first count
LenientCount(s) ==
    LET first == {p \in 1..Len(s) :
                     /\ CountMatches(s, p) # {}
                     /\ \A q \in 1..(p - 1) : CountMatches(s, q) = {}}
    IN  IF first = {} THEN [summary |-> Strip(s), word_count |-> DefaultWordCount]
        ELSE CHOOSE r \in
                 {[summary |-> Strip(RemoveCounts(s, 1)),
                   word_count |->
                       CountValue(Slice(s, dw[1], SkipCountChars(s, dw[1]) - 1))] :
                     dw \in UNION {CountMatches(s, p) : p \in first}} : TRUE

\* lines 106-145: the chapter of block number i (from 0)
LenientChapter(b, i) ==
    CHOOSE c \in
        {[chapter_num |-> i + 1,
          title |-> tm.title,
          summary |-> LenientCount(tm.summary).summary,
          word_count |-> LenientCount(tm.summary).word_count] :
            tm \in {LenientTitle(b, i)}} : TRUE

(***************************************************************************)
(* The texts parse_outline is called with.                                 *)
(***************************************************************************)

\* chapters of the one outline whose numbers reach two digits
LongOutlineChapters == 11

\* fragments an arbitrary text is put together from
OutlinePieces ==
    { <<"Chapter", " ", "1", ":">>,
      <<"Chapter", " ", "2", ":">>,
      <<"Chapter", ":">>,
      <<"Chapter", " ", "1">>,
      <<" ", "T">>,
      <<"\n", "Summary", ":", " ", "x">>,
      <<"\n", "Estimated", " ", "word", " ", "count", ":", " ", "5">>,
      <<" ">>,
      <<"\n">>,
      <<"-", " ">>,
      <<"Target", " ", "7", " ", "words">> }

ArbitraryOutlines ==
    {Flatten(ps) : ps \in SeqsUpTo(OutlinePieces, MaxOutlinePieces)}

\* what a chapter of a well-formed outline says; `written` is how the
\* outline spells word_count
OutlineChapters ==
    { [title |-> <<"T">>, summary |-> <<"x">>,
       written |-> <<"2", "5", "0", "0">>, word_count |-> 2500],
      [title |-> <<"T", " ", "x">>, summary |-> <<"x", "\n", "T">>,
       written |-> <<"7">>, word_count |-> 7],
      [title |-> <<"x">>, summary |-> <<"T", " ", "x">>,
       written |-> <<"2", ",", "5", "0", "0">>, word_count |-> 2500] }

\* block i of a well-formed outline
RenderBlock(i, c) ==
    HeaderLiteral(ToDigits(i)) \o <<" ">> \o c.title
        \o <<"\n", "Summary", ":", " ">> \o c.summary
        \o <<"\n">> \o EstimatedWordCount \o <<" ">> \o c.written

RECURSIVE RenderBlocks(_, _, _)
\* blocks i.. of cs, each followed by sep except the last
RenderBlocks(cs, i, sep) ==
    IF i > Len(cs) THEN <<>>
    ELSE RenderBlock(i, cs[i]) \o (IF i < Len(cs) THEN sep ELSE <<>>)
             \o RenderBlocks(cs, i + 1, sep)

BlockSeparators == {<<"\n">>, <<"\n", "\n">>}
Endings == {<<>>, <<"\n">>}

WellFormedChapterLists ==
    (SeqsUpTo(OutlineChapters, MaxOutlineChapters) \ {<<>>})
        \cup {[i \in 1..LongOutlineChapters |->
                  [title |-> <<"T">>, summary |-> <<"x">>,
                   written |-> <<"2", "5", "0", "0">>, word_count |-> 2500]]}

OutlineInit ==
    /\ \/ outline \in ArbitraryOutlines /\ outline_blocks = <<>>
       \/ \E cs \in WellFormedChapterLists, sep \in BlockSeparators, end \in Endings :
              /\ outline = RenderBlocks(cs, 1, sep) \o end
              /\ outline_blocks = cs
    /\ po_pc = "call"
    /\ chapter_matches = <<>>
    /\ po_i = 0
    /\ chapter_block = <<>>
    /\ chapter_blocks = <<>>
    /\ chapters = <<>>
    /\ po_result = None

\* lines 21-34: the headers of the outline
ParseOutline ==
    /\ po_pc = "call"
    /\ chapter_matches' = ChapterMatches(outline)
    /\ po_i' = 1
    /\ po_pc' = "for"
    /\ UNCHANGED <<outline, outline_blocks, chapter_block, chapter_blocks, chapters,
                   po_result>>
    /\ UNCHANGED notPo

\* lines 37-47: the search finds the block of the chapter
BlockFound ==
    /\ po_pc = "for"
    /\ po_i <= Len(chapter_matches)
    /\ \E block \in ChapterBlockFound(outline, chapter_matches[po_i].num) :
           chapter_block' = block
    /\ po_pc' = "block"
    /\ UNCHANGED <<outline, outline_blocks, chapter_matches, po_i, chapter_blocks,
                   chapters, po_result>>
    /\ UNCHANGED notPo

\* lines 42-44: the search finds nothing, and neither does the split, whose
\* one-element list is indexed with [1]: IndexError leaves parse_outline
BlockMissing ==
    /\ po_pc = "for"
    /\ po_i <= Len(chapter_matches)
    /\ ChapterBlockFound(outline, chapter_matches[po_i].num) = {}
    /\ po_pc' = "raised"
    /\ UNCHANGED <<outline, outline_blocks, chapter_matches, po_i, chapter_block,
                   chapter_blocks, chapters, po_result>>
    /\ UNCHANGED notPo

\* lines 49-75
AppendChapter ==
    /\ po_pc = "block"
    /\ chapters' = Append(chapters,
                          [chapter_num |-> ToInt(chapter_matches[po_i].num),
                           title |-> Strip(chapter_matches[po_i].title),
                           summary |-> BlockSummary(chapter_block),
                           word_count |-> BlockWordCount(chapter_block)])
    /\ po_i' = po_i + 1
    /\ po_pc' = "for"
    /\ UNCHANGED <<outline, outline_blocks, chapter_matches, chapter_block,
                   chapter_blocks, po_result>>
    /\ UNCHANGED notPo

\* line 78: the loop is over and it has parsed chapters
StandardParsed ==
    /\ po_pc = "for"
    /\ po_i > Len(chapter_matches)
    /\ chapters # <<>>
    /\ po_pc' = "sort"
    /\ UNCHANGED <<outline, outline_blocks, chapter_matches, po_i, chapter_block,
                   chapter_blocks, chapters, po_result>>
    /\ UNCHANGED notPo

\* lines 78-80 and 100-104: nothing parsed, the lenient parser takes over
LenientParseOutline ==
    /\ po_pc = "for"
    /\ po_i > Len(chapter_matches)
    /\ chapters = <<>>
    /\ chapter_blocks' = ChapterBlocks(outline)
    /\ po_i' = 0
    /\ po_pc' = "lenient"
    /\ UNCHANGED <<outline, outline_blocks, chapter_matches, chapter_block, chapters,
                   po_result>>
    /\ UNCHANGED notPo

\* lines 106-108: a blank block is passed over
LenientSkipsBlock ==
    /\ po_pc = "lenient"
    /\ po_i < Len(chapter_blocks)
    /\ Strip(chapter_blocks[po_i + 1]) = <<>>
    /\ po_i' = po_i + 1
    /\ UNCHANGED <<po_pc, outline, outline_blocks, chapter_matches, chapter_block,
                   chapter_blocks, chapters, po_result>>
    /\ UNCHANGED notPo

\* lines 106-145
LenientAppendsChapter ==
    /\ po_pc = "lenient"
    /\ po_i < Len(chapter_blocks)
    /\ Strip(chapter_blocks[po_i + 1]) # <<>>
    /\ chapters' = Append(chapters, LenientChapter(chapter_blocks[po_i + 1], po_i))
    /\ po_i' = po_i + 1
    /\ UNCHANGED <<po_pc, outline, outline_blocks, chapter_matches, chapter_block,
                   chapter_blocks, po_result>>
    /\ UNCHANGED notPo

\* line 147
LenientReturns ==
    /\ po_pc = "lenient"
    /\ po_i >= Len(chapter_blocks)
    /\ po_pc' = "sort"
    /\ UNCHANGED <<outline, outline_blocks, chapter_matches, po_i, chapter_block,
                   chapter_blocks, chapters, po_result>>
    /\ UNCHANGED notPo

\* lines 83-85
ParseOutlineReturns ==
    /\ po_pc = "sort"
    /\ po_result' = SortByNumber(chapters)
    /\ po_pc' = "returned"
    /\ UNCHANGED <<outline, outline_blocks, chapter_matches, po_i, chapter_block,
                   chapter_blocks, chapters>>
    /\ UNCHANGED notPo

OutlineNext ==
    \/ ParseOutline
    \/ BlockFound
    \/ BlockMissing
    \/ AppendChapter
    \/ StandardParsed
    \/ LenientParseOutline
    \/ LenientSkipsBlock
    \/ LenientAppendsChapter
    \/ LenientReturns
    \/ ParseOutlineReturns

OutlineSpecInit ==
    OutlineInit /\ GatewayOff /\ WriterOff /\ ChunkOff /\ StatsOff /\ PhrasesOff
    /\ OrchestratorOff /\ FixesOff /\ JsonOff

OutlineSpec == OutlineSpecInit /\ [][OutlineNext]_vars

(***************************************************************************)
(* Claims about parse_outline.                                             *)
(***************************************************************************)

\* C6: whatever the text (empty, blank, without a chapter header, with
\* headers that carry no number), parse_outline never raises and returns a
\* sequence that is not empty.
C6_NeverRaisesNonEmpty ==
    /\ po_pc # "raised"
    /\ po_pc = "returned" => po_result # <<>>

\* what parse_outline should return for the chapters a well-formed outline
\* was written from
ExpectedChapters(cs) ==
    [i \in DOMAIN cs |->
        [chapter_num |-> i,
         title |-> cs[i].title,
         summary |-> cs[i].summary,
         word_count |-> cs[i].word_count]]

\* C7: for a well-formed outline of n >= 1 blocks 'Chapter i: Title',
\* 'Summary: ...', 'Estimated word count: w' with i = 1..n, parse_outline
\* does not raise, does not fall back to the lenient parser, and returns n
\* records in order, record i with index i and the title, the summary and
\* the word count of block i.
C7_WellFormedOutline ==
    outline_blocks # <<>> =>
        /\ po_pc \notin {"raised", "lenient"}
        /\ po_pc = "returned" => po_result = ExpectedChapters(outline_blocks)

\* a three-chapter outline whose second block has a summary of two lines and
\* whose third spells its count "2,500" has been parsed
C7_Witness ==
    /\ po_pc = "returned"
    /\ Len(outline_blocks) = 3
    /\ outline_blocks[2].summary = <<"x", "\n", "T">>
    /\ outline_blocks[3].written = <<"2", ",", "5", "0", "0">>
    /\ Len(po_result) = 3
    /\ po_result[2].summary = <<"x", "\n", "T">>
    /\ po_result[3].word_count = 2500

\* C21: for any input, the sequence parse_outline returns is sorted by
\* chapter index, its indices are 1..n without gap or duplicate, every title
\* is non-empty and every word-count target is positive.
C21_OutlineInvariant ==
    po_pc = "returned" =>
        /\ \A i \in DOMAIN po_result :
               /\ po_result[i].chapter_num = i
               /\ po_result[i].title # <<>>
               /\ po_result[i].word_count > 0

\* the part of C21 the code does keep: the returned sequence is sorted by
\* chapter index (line 83)
C21_SortedByIndex ==
    po_pc = "returned" =>
        \A i, j \in DOMAIN po_result :
            i < j => po_result[i].chapter_num <= po_result[j].chapter_num

\* the numbered pattern of line 24 matches nothing and the pattern of line 29
\* matches at least one header
OrderOnlyOutline ==
    /\ FindAll(NumberedMatches(outline), 1) = <<>>
    /\ FindAll(AnyMatches(outline), 1) # <<>>

\* C22: when the numbered pattern matches nothing and n headers match the
\* order-only pattern, parse_outline returns n records, record i with index i
\* and the title of the i-th header.
C22_OrderOnlyHeaders ==
    OrderOnlyOutline =>
        /\ po_pc # "raised"
        /\ po_pc = "returned" =>
               /\ Len(po_result) = Len(AltMatches(outline))
               /\ \A i \in DOMAIN po_result :
                      /\ po_result[i].chapter_num = i
                      /\ po_result[i].title = AltMatches(outline)[i].title

\* what the code does instead: an outline of order-only headers that carries
\* no literal 'Chapter 1:' never comes back from parse_outline
C22_OrderOnlyRaises ==
    (OrderOnlyOutline /\ ChapterBlockFound(outline, <<"1">>) = {}) =>
        po_pc \in {"call", "for", "raised"}

(***************************************************************************)
(*          BookGenerationOrchestrator  (core/orchestrator.py)             *)
(*                                                                         *)
(* One run() of the orchestrator. The agents are the environment: a call   *)
(* to an agent returns a value or raises the exception that the gateway    *)
(* raises when every provider is exhausted (no agent catches it). A file   *)
(* write succeeds or raises OSError. A chapter text is a record: the       *)
(* number of the chapter it was written for and the agents that rewrote    *)
(* it, in order. An outline is the sequence of its chapter header numbers. *)
(***************************************************************************)
MaxBookChapters == 4

phasesRefinementFirst == <<"planning", "refinement", "creation", "qa", "publishing">>

phases == <<"planning", "creation", "refinement", "qa", "publishing">>

\* the exception of LLMProvider.generate_text, seen through Agent.generate
GatewayExhausted == "All providers failed to generate text"
OSError == "OSError"
IndexError == "IndexError"

\* an outline on which parse_outline raises: a header without a number
MalformedOutline == <<0>>

\* the outlines the plot architect may return
Outlines ==
    {[k \in 1..n |-> k] : n \in 0..MaxBookChapters} \cup {<<2>>, MalformedOutline}

RECURSIVE SortedNums(_)
\* the numbers of a set in increasing order
SortedNums(S) ==
    IF S = {} THEN <<>> ELSE <<SetMin(S)>> \o SortedNums(S \ {SetMin(S)})

\* parse_outline as the planning phase sees it: the chapters sorted by number
StructuredOutline(o) ==
    LET nums == SortedNums(Range(o))
    IN  [k \in 1..Len(nums) |->
            [chapter_num |-> nums[k], title |-> nums[k], summary |-> nums[k],
             word_count |-> DefaultWordCount]]

InitialBookData ==
    [metadata |-> [title |-> "", author |-> "AI"],
     outline |-> <<>>,
     structured_outline |-> <<>>,
     character_profiles |-> <<>>,
     chapters |-> <<>>,
     reviews |-> <<>>,
     revisions |-> <<>>,
     final_score |-> <<>>]

NoReports == [r \in {} |-> {}]

\* a loop variable that is not bound yet
NoChapter == [draft |-> 0, fixed_by |-> <<>>]

OrchestratorInit ==
    /\ or_pc = "init"
    /\ save_intermediates \in BOOLEAN
    /\ book_data = InitialBookData
    /\ phase_times = <<>> /\ phases_begun = <<>> /\ phase_i = 0
    /\ chapter_i = 0 /\ chapter = NoChapter /\ reports = NoReports
    /\ agent_calls = <<>> /\ saved = <<>> /\ or_exc = <<>> /\ run_result = <<>>

orLoop == <<phase_times, phases_begun, phase_i>>
orLocals == <<chapter_i, chapter, reports>>
orEnd == <<or_exc, run_result>>

\* an agent call as it is logged: the method and the chapter texts handed over
AgentCall(method, num, input) == [method |-> method, num |-> num, input |-> input]

\* an exception leaves the running phase and reaches the handler of run(),
\* which logs it and returns False
Raised(e) == or_pc' = "returned" /\ or_exc' = <<e>> /\ run_result' = <<FALSE>>

\* run(): the try block is entered
Run ==
    /\ or_pc = "init"
    /\ or_pc' = "for"
    /\ UNCHANGED <<save_intermediates, book_data, orLoop, orLocals, agent_calls,
                   saved, orEnd>>
    /\ UNCHANGED notOr

\* run(): the for loop takes the next phase and dispatches on its name; the
\* phase method starts with fresh locals
BeginPhase ==
    /\ or_pc = "for" /\ phase_i < Len(phases)
    /\ phase_i' = phase_i + 1
    /\ phases_begun' = Append(phases_begun, phases[phase_i + 1])
    /\ or_pc' = phases[phase_i + 1]
    /\ chapter_i' = 0 /\ chapter' = NoChapter /\ reports' = NoReports
    /\ UNCHANGED <<save_intermediates, book_data, phase_times, agent_calls, saved, orEnd>>
    /\ UNCHANGED notOr

\* run(): the phase method has returned; its time is recorded
CompletePhase ==
    /\ or_pc = "phase_end"
    /\ phase_times' = Append(phase_times, phases[phase_i])
    /\ or_pc' = "for"
    /\ UNCHANGED <<save_intermediates, book_data, phases_begun, phase_i, orLocals,
                   agent_calls, saved, orEnd>>
    /\ UNCHANGED notOr

\* run(): after the loop the metrics file is written and True is returned
SaveMetrics ==
    /\ or_pc = "for" /\ phase_i = Len(phases)
    /\ \/ /\ saved' = Append(saved, [file |-> "metrics", ok |-> TRUE])
          /\ or_pc' = "returned" /\ run_result' = <<TRUE>> /\ UNCHANGED or_exc
       \/ /\ saved' = Append(saved, [file |-> "metrics", ok |-> FALSE])
          /\ Raised(OSError)
    /\ UNCHANGED <<save_intermediates, book_data, orLoop, orLocals, agent_calls>>
    /\ UNCHANGED notOr

\* _save_intermediate_results(phase): nothing when disabled, else the files
\* of the phase are written, and a failing write raises
SaveIntermediateResults(phase, next) ==
    \/ /\ ~save_intermediates
       /\ or_pc' = next /\ UNCHANGED <<saved, orEnd>>
    \/ /\ save_intermediates
       /\ saved' = Append(saved, [file |-> phase, ok |-> TRUE])
       /\ or_pc' = next /\ UNCHANGED orEnd
    \/ /\ save_intermediates
       /\ saved' = Append(saved, [file |-> phase, ok |-> FALSE])
       /\ Raised(OSError)

(************************** planning ***************************************)
\* plot_architect.create_outline: the outline is stored, or the call raises
CreateOutline ==
    /\ or_pc = "planning"
    /\ agent_calls' = Append(agent_calls, AgentCall("create_outline", 0, <<>>))
    /\ \/ \E o \in Outlines :
            /\ book_data' = [book_data EXCEPT !.outline = o]
            /\ or_pc' = "parse_outline" /\ UNCHANGED orEnd
       \/ Raised(GatewayExhausted) /\ UNCHANGED book_data
    /\ UNCHANGED <<save_intermediates, orLoop, orLocals, saved>>
    /\ UNCHANGED notOr

\* parse_outline(self.book_data["outline"])
ParseStructuredOutline ==
    /\ or_pc = "parse_outline"
    /\ IF book_data.outline = MalformedOutline
       THEN Raised(IndexError) /\ UNCHANGED book_data
       ELSE /\ book_data' = [book_data EXCEPT
                               !.structured_outline = StructuredOutline(book_data.outline)]
            /\ or_pc' = "character_profiles" /\ UNCHANGED orEnd
    /\ UNCHANGED <<save_intermediates, orLoop, orLocals, agent_calls, saved>>
    /\ UNCHANGED notOr

\* character_designer.create_character_profiles
CreateCharacterProfiles ==
    /\ or_pc = "character_profiles"
    /\ agent_calls' = Append(agent_calls, AgentCall("create_character_profiles", 0, <<>>))
    /\ \/ /\ book_data' = [book_data EXCEPT !.character_profiles = <<"profiles">>]
          /\ or_pc' = "save_planning" /\ UNCHANGED orEnd
       \/ Raised(GatewayExhausted) /\ UNCHANGED book_data
    /\ UNCHANGED <<save_intermediates, orLoop, orLocals, saved>>
    /\ UNCHANGED notOr

\* the planning phase saves its results
SavePlanning ==
    /\ or_pc = "save_planning"
    /\ SaveIntermediateResults("planning", "phase_end")
    /\ UNCHANGED <<save_intermediates, book_data, orLoop, orLocals, agent_calls>>
    /\ UNCHANGED notOr

(************************** creation ***************************************)
\* the text write_chapter returns for chapter k
ChapterText(k) == [draft |-> k, fixed_by |-> <<>>]

\* chapters[-2:]
LastTwo(cs) == Slice(cs, Max(1, Len(cs) - 1), Len(cs))

\* a context whose labels count from the number of the chapter being written
PrevChaptersContextFromHere(chapter_num, previous_chapters) ==
    LET last == LastTwo(previous_chapters)
    IN  [i \in DOMAIN last |-> [prev_idx |-> chapter_num + (i - 1), excerpts_of |-> last[i]]]

\* writer.write_chapter, lines 41-55: the context of the chapter prompt, the
\* excerpts of each of the last two previous chapters under a chapter number
PrevChaptersContext(chapter_num, previous_chapters) ==
    LET last == LastTwo(previous_chapters)
    IN  [i \in DOMAIN last |->
            [prev_idx |-> chapter_num - Len(last) + (i - 1), excerpts_of |-> last[i]]]

\* creation loop: chapter_info gets its position as number, the writer is
\* called with the last two chapters, and the returned chapter is appended
WriteNextChapter ==
    /\ or_pc = "creation" /\ chapter_i < Len(book_data.structured_outline)
    /\ LET chapter_num == chapter_i + 1
           numbered == [book_data.structured_outline EXCEPT
                          ![chapter_num].chapter_num = chapter_num]
       IN  /\ agent_calls' = Append(agent_calls,
                 AgentCall("write_chapter", chapter_num,
                     PrevChaptersContext(chapter_num, LastTwo(book_data.chapters))))
           /\ \/ /\ book_data' = [book_data EXCEPT
                        !.structured_outline = numbered,
                        !.chapters = Append(@, ChapterText(chapter_num))]
                 /\ or_pc' = "interim_check" /\ UNCHANGED orEnd
              \/ /\ book_data' = [book_data EXCEPT !.structured_outline = numbered]
                 /\ Raised(GatewayExhausted)
    /\ UNCHANGED <<save_intermediates, orLoop, orLocals, saved>>
    /\ UNCHANGED notOr

\* an interim check after every second chapter
PerformInterimCheckEverySecond ==
    /\ or_pc = "interim_check"
    /\ IF Len(book_data.chapters) > 1 /\ (chapter_i + 1) % 2 = 0
       THEN /\ agent_calls' = Append(agent_calls,
                  AgentCall("quick_check", chapter_i + 1, book_data.chapters))
            /\ \/ /\ book_data' = [book_data EXCEPT !.reviews = Append(@,
                         [type |-> "interim_continuity", chapter |-> chapter_i + 1,
                          report |-> [issues |-> TRUE]])]
                  /\ or_pc' = "save_chapter" /\ UNCHANGED orEnd
               \/ /\ or_pc' = "save_chapter" /\ UNCHANGED <<book_data, orEnd>>
               \/ /\ Raised(GatewayExhausted) /\ UNCHANGED book_data
       ELSE or_pc' = "save_chapter" /\ UNCHANGED <<book_data, agent_calls, orEnd>>
    /\ UNCHANGED <<save_intermediates, orLoop, orLocals, saved>>
    /\ UNCHANGED notOr

\* every third chapter: _perform_interim_check, which records the issues found
PerformInterimCheck ==
    /\ or_pc = "interim_check"
    /\ IF Len(book_data.chapters) > 1 /\ (chapter_i + 1) % 3 = 0
       THEN /\ agent_calls' = Append(agent_calls,
                  AgentCall("quick_check", chapter_i + 1, book_data.chapters))
            /\ \/ /\ book_data' = [book_data EXCEPT !.reviews = Append(@,
                         [type |-> "interim_continuity", chapter |-> chapter_i + 1,
                          report |-> [issues |-> TRUE]])]
                  /\ or_pc' = "save_chapter" /\ UNCHANGED orEnd
               \/ /\ or_pc' = "save_chapter" /\ UNCHANGED <<book_data, orEnd>>
               \/ /\ Raised(GatewayExhausted) /\ UNCHANGED book_data
       ELSE or_pc' = "save_chapter" /\ UNCHANGED <<book_data, agent_calls, orEnd>>
    /\ UNCHANGED <<save_intermediates, orLoop, orLocals, saved>>
    /\ UNCHANGED notOr

\* creation loop: _save_chapter when intermediates are saved; next chapter
SaveChapter ==
    /\ or_pc = "save_chapter"
    /\ \/ /\ ~save_intermediates
          /\ or_pc' = "creation" /\ chapter_i' = chapter_i + 1
          /\ UNCHANGED <<saved, orEnd>>
       \/ /\ save_intermediates
          /\ saved' = Append(saved, [file |-> "chapter", ok |-> TRUE])
          /\ or_pc' = "creation" /\ chapter_i' = chapter_i + 1
          /\ UNCHANGED orEnd
       \/ /\ save_intermediates
          /\ saved' = Append(saved, [file |-> "chapter", ok |-> FALSE])
          /\ Raised(OSError) /\ UNCHANGED chapter_i
    /\ UNCHANGED <<save_intermediates, book_data, orLoop, chapter, reports, agent_calls>>
    /\ UNCHANGED notOr

\* after the loop all chapters are saved together
SaveCreation ==
    /\ or_pc = "creation" /\ chapter_i = Len(book_data.structured_outline)
    /\ SaveIntermediateResults("creation", "phase_end")
    /\ UNCHANGED <<save_intermediates, book_data, orLoop, orLocals, agent_calls>>
    /\ UNCHANGED notOr

(************************** refinement *************************************)
\* the chapter_fixes an analysis may report for n chapters: the numbers of
\* the chapters that have a non-empty fix list
FixSets(n) == IF n = 0 THEN {{}} ELSE {{}, {1}, 1..n}

\* an analysis pass that puts its report in front of the reviews
AnalysisNewestFirst(type, method, next) ==
    /\ agent_calls' = Append(agent_calls, AgentCall(method, 0, book_data.chapters))
    /\ \/ \E fixes \in FixSets(Len(book_data.chapters)) :
            LET report == [chapter_fixes |-> fixes, total_fixes |-> Cardinality(fixes)]
            IN  /\ reports' = (type :> report) @@ reports
                /\ book_data' = [book_data EXCEPT !.reviews =
                       <<[type |-> type, chapter |-> 0, report |-> report]>> \o @]
                /\ or_pc' = next /\ UNCHANGED orEnd
       \/ Raised(GatewayExhausted) /\ UNCHANGED <<book_data, reports>>
    /\ UNCHANGED <<save_intermediates, orLoop, chapter_i, chapter, saved>>
    /\ UNCHANGED notOr

\* an analysis pass over all chapters: the report is kept and appended to the
\* reviews, or the pass raises
Analysis(type, method, next) ==
    /\ agent_calls' = Append(agent_calls, AgentCall(method, 0, book_data.chapters))
    /\ \/ \E fixes \in FixSets(Len(book_data.chapters)) :
            LET report == [chapter_fixes |-> fixes, total_fixes |-> Cardinality(fixes)]
            IN  /\ reports' = (type :> report) @@ reports
                /\ book_data' = [book_data EXCEPT !.reviews = Append(@,
                       [type |-> type, chapter |-> 0, report |-> report])]
                /\ or_pc' = next /\ UNCHANGED orEnd
       \/ Raised(GatewayExhausted) /\ UNCHANGED <<book_data, reports>>
    /\ UNCHANGED <<save_intermediates, orLoop, chapter_i, chapter, saved>>
    /\ UNCHANGED notOr

CheckStoryContinuity ==
    or_pc = "refinement" /\ Analysis("continuity", "check_story_continuity", "style")

ReviewStyleConsistency ==
    or_pc = "style" /\ Analysis("style", "review_style_consistency", "pacing")

AnalyzePacing ==
    or_pc = "pacing" /\ Analysis("pacing", "analyze_pacing", "dialogue")

RefineDialogue ==
    or_pc = "dialogue" /\ Analysis("dialogue", "refine_dialogue", "refine")

\* the text an agent returns for a chapter it was asked to fix
Rewritten(text, agent) == [text EXCEPT !.fixed_by = Append(@, agent)]

\* refinement loop: the next chapter is taken from the list
RefineChapter ==
    /\ or_pc = "refine" /\ chapter_i < Len(book_data.chapters)
    /\ chapter' = book_data.chapters[chapter_i + 1]
    /\ or_pc' = "fix_continuity"
    /\ UNCHANGED <<save_intermediates, book_data, orLoop, chapter_i, reports,
                   agent_calls, saved, orEnd>>
    /\ UNCHANGED notOr

\* a fix chain that stores every step's text in the document at once
ApplyFixesInPlace(type, method, next) ==
    /\ IF (chapter_i + 1) \in reports[type].chapter_fixes
       THEN /\ agent_calls' = Append(agent_calls,
                  AgentCall(method, chapter_i + 1, <<chapter>>))
            /\ \/ /\ chapter' = Rewritten(chapter, type)
                  /\ book_data' = [book_data EXCEPT !.chapters[chapter_i + 1] =
                                      Rewritten(chapter, type)]
                  /\ or_pc' = next /\ UNCHANGED orEnd
               \/ Raised(GatewayExhausted) /\ UNCHANGED <<chapter, book_data>>
       ELSE or_pc' = next /\ UNCHANGED <<chapter, book_data, agent_calls, orEnd>>
    /\ UNCHANGED <<save_intermediates, orLoop, chapter_i, reports, saved>>
    /\ UNCHANGED notOr

\* one step of the fix chain: when the report has fixes for this chapter the
\* agent's apply_fixes rewrites the local chapter, or raises
ApplyFixes(type, method, next) ==
    /\ IF (chapter_i + 1) \in reports[type].chapter_fixes
       THEN /\ agent_calls' = Append(agent_calls,
                  AgentCall(method, chapter_i + 1, <<chapter>>))
            /\ \/ /\ chapter' = Rewritten(chapter, type)
                  /\ or_pc' = next /\ UNCHANGED orEnd
               \/ Raised(GatewayExhausted) /\ UNCHANGED chapter
       ELSE or_pc' = next /\ UNCHANGED <<chapter, agent_calls, orEnd>>
    /\ UNCHANGED <<save_intermediates, book_data, orLoop, chapter_i, reports, saved>>
    /\ UNCHANGED notOr

ApplyContinuityFixes ==
    or_pc = "fix_continuity"
    /\ ApplyFixes("continuity", "continuity_checker.apply_fixes", "fix_style")

\* a style step that starts from the stored chapter, not from the text the
\* step before it produced
ApplyStyleFixesToStored ==
    /\ or_pc = "fix_style"
    /\ IF (chapter_i + 1) \in reports["style"].chapter_fixes
       THEN /\ agent_calls' = Append(agent_calls,
                  AgentCall("style_reviewer.apply_fixes", chapter_i + 1,
                            <<book_data.chapters[chapter_i + 1]>>))
            /\ \/ /\ chapter' = Rewritten(book_data.chapters[chapter_i + 1], "style")
                  /\ or_pc' = "fix_pacing" /\ UNCHANGED orEnd
               \/ Raised(GatewayExhausted) /\ UNCHANGED chapter
       ELSE or_pc' = "fix_pacing" /\ UNCHANGED <<chapter, agent_calls, orEnd>>
    /\ UNCHANGED <<save_intermediates, book_data, orLoop, chapter_i, reports, saved>>
    /\ UNCHANGED notOr

ApplyStyleFixes ==
    or_pc = "fix_style" /\ ApplyFixes("style", "style_reviewer.apply_fixes", "fix_pacing")

ApplyPacingFixes ==
    or_pc = "fix_pacing"
    /\ ApplyFixes("pacing", "pacing_advisor.apply_fixes", "fix_dialogue")

ApplyDialogueFixes ==
    or_pc = "fix_dialogue"
    /\ ApplyFixes("dialogue", "dialogue_expert.apply_fixes", "update_chapter")

\* a refinement that adds the refined text behind the chapters
UpdateChapterAppended ==
    /\ or_pc = "update_chapter"
    /\ book_data' = [book_data EXCEPT !.chapters = Append(@, chapter)]
    /\ chapter_i' = chapter_i + 1
    /\ or_pc' = "refine"
    /\ UNCHANGED <<save_intermediates, orLoop, chapter, reports, agent_calls, saved,
                   orEnd>>
    /\ UNCHANGED notOr

\* self.book_data["chapters"][i] = chapter
UpdateChapter ==
    /\ or_pc = "update_chapter"
    /\ book_data' = [book_data EXCEPT !.chapters[chapter_i + 1] = chapter]
    /\ chapter_i' = chapter_i + 1
    /\ or_pc' = "refine"
    /\ UNCHANGED <<save_intermediates, orLoop, chapter, reports, agent_calls, saved,
                   orEnd>>
    /\ UNCHANGED notOr

\* after the loop the refined chapters are saved
SaveRefinement ==
    /\ or_pc = "refine" /\ chapter_i = Len(book_data.chapters)
    /\ SaveIntermediateResults("refinement", "revisions")
    /\ UNCHANGED <<save_intermediates, book_data, orLoop, orLocals, agent_calls>>
    /\ UNCHANGED notOr

\* the numbers of fixes are recorded
RecordRevisions ==
    /\ or_pc = "revisions"
    /\ book_data' = [book_data EXCEPT !.revisions =
           <<reports["continuity"].total_fixes, reports["style"].total_fixes,
             reports["pacing"].total_fixes, reports["dialogue"].total_fixes>>]
    /\ or_pc' = "phase_end"
    /\ UNCHANGED <<save_intermediates, orLoop, orLocals, agent_calls, saved, orEnd>>
    /\ UNCHANGED notOr

(************************** qa *********************************************)
QualityThreshold == 7

\* the category scores of a quality report, in the order of the categories:
\* a mean of 6.8 with four scores at the threshold, and a mean of 7 with two
\* scores far below it
QaScores == {<<7, 7, 7, 7, 6>>, <<10, 10, 10, 4, 1>>}

\* quality_analyst.evaluate_book_quality, lines 124-135: scores["overall"],
\* the mean of the category scores, in hundredths
Overall(scores) == IF scores = <<>> THEN 500 ELSE (SumSeq(scores) * 100) \div Len(scores)

\* a test that lets a score at the threshold through to the fixes
NotAboveThreshold(overall_score) == overall_score <= QualityThreshold * 100

\* line 359: overall_score < 7
BelowThreshold(overall_score) == overall_score < QualityThreshold * 100

\* the titles generate_title may return
Titles == {"", "A Title"}

\* quality_analyst.evaluate_book_quality: the report is appended to the
\* reviews and its score stored; fixes follow when the score is too low
EvaluateBookQuality ==
    /\ or_pc = "qa"
    /\ agent_calls' = Append(agent_calls,
          AgentCall("evaluate_book_quality", 0, book_data.chapters))
    /\ \/ \E scores \in QaScores, issues \in FixSets(Len(book_data.chapters)) :
            LET overall == Overall(scores)
                qa_report == [scores |-> scores, overall |-> overall,
                              critical_issues |-> issues]
            IN  /\ reports' = ("quality" :> qa_report) @@ reports
                /\ book_data' = [book_data EXCEPT
                       !.reviews = Append(@, [type |-> "quality", chapter |-> 0,
                                              report |-> qa_report]),
                       !.final_score = <<overall>>]
                /\ or_pc' = IF BelowThreshold(overall) /\ issues # {}
                            THEN "qa_fix" ELSE "qa_title"
                /\ UNCHANGED orEnd
       \/ Raised(GatewayExhausted) /\ UNCHANGED <<book_data, reports>>
    /\ UNCHANGED <<save_intermediates, orLoop, chapter_i, chapter, saved>>
    /\ UNCHANGED notOr

\* QA loop: a chapter named by a critical issue is replaced by the text
\* fix_critical_issues returns
FixCriticalIssues ==
    /\ or_pc = "qa_fix" /\ chapter_i < Len(book_data.chapters)
    /\ chapter' = book_data.chapters[chapter_i + 1]
    /\ IF (chapter_i + 1) \in reports["quality"].critical_issues
       THEN /\ agent_calls' = Append(agent_calls,
                  AgentCall("fix_critical_issues", chapter_i + 1,
                            <<book_data.chapters[chapter_i + 1]>>))
            /\ \/ /\ book_data' = [book_data EXCEPT !.chapters[chapter_i + 1] =
                                      Rewritten(@, "quality")]
                  /\ chapter_i' = chapter_i + 1
                  /\ UNCHANGED <<or_pc, orEnd>>
               \/ Raised(GatewayExhausted) /\ UNCHANGED <<book_data, chapter_i>>
       ELSE /\ chapter_i' = chapter_i + 1
            /\ UNCHANGED <<book_data, agent_calls, or_pc, orEnd>>
    /\ UNCHANGED <<save_intermediates, orLoop, reports, saved>>
    /\ UNCHANGED notOr

\* QA loop: all chapters were visited
CriticalIssuesFixed ==
    /\ or_pc = "qa_fix" /\ chapter_i = Len(book_data.chapters)
    /\ or_pc' = "qa_title"
    /\ UNCHANGED <<save_intermediates, book_data, orLoop, orLocals, agent_calls, saved,
                   orEnd>>
    /\ UNCHANGED notOr

\* a title is generated when none is set
GenerateTitle(input, next) ==
    /\ IF book_data.metadata.title = ""
       THEN /\ agent_calls' = Append(agent_calls, AgentCall("generate_title", 0, input))
            /\ \/ \E title \in Titles :
                    /\ book_data' = [book_data EXCEPT !.metadata.title = title]
                    /\ or_pc' = next /\ UNCHANGED orEnd
               \/ Raised(GatewayExhausted) /\ UNCHANGED book_data
       ELSE or_pc' = next /\ UNCHANGED <<book_data, agent_calls, orEnd>>
    /\ UNCHANGED <<save_intermediates, orLoop, orLocals, saved>>
    /\ UNCHANGED notOr

GenerateQaTitle ==
    or_pc = "qa_title" /\ GenerateTitle(book_data.chapters, "save_qa")

SaveQa ==
    /\ or_pc = "save_qa"
    /\ SaveIntermediateResults("qa", "phase_end")
    /\ UNCHANGED <<save_intermediates, book_data, orLoop, orLocals, agent_calls>>
    /\ UNCHANGED notOr

(************************** publishing *************************************)
\* chapters[:1]
FirstOne(cs) == Slice(cs, 1, Min(1, Len(cs)))

GeneratePublishingTitle ==
    or_pc = "publishing" /\ GenerateTitle(FirstOne(book_data.chapters), "save_text")

\* a file of the publishing phase is written, or the write raises
WriteFile(file, next) ==
    /\ \/ /\ saved' = Append(saved, [file |-> file, ok |-> TRUE])
          /\ or_pc' = next /\ UNCHANGED orEnd
       \/ /\ saved' = Append(saved, [file |-> file, ok |-> FALSE])
          /\ Raised(OSError)
    /\ UNCHANGED <<save_intermediates, book_data, orLoop, orLocals, agent_calls>>
    /\ UNCHANGED notOr

\* formats default to txt and epub
SaveAsText == or_pc = "save_text" /\ WriteFile("txt", "cover")

\* what generate_cover_image may do: return the path of the image, return
\* None (the image backend failed, cover_designer.py lines 40-54), or raise
\* (the prompt generation of line 38 found the gateway exhausted)
CoverOutcomes == {"path", "None", "raised"}

\* a cover step that lets the exception of the cover designer through
GenerateCoverUnguarded ==
    /\ or_pc = "cover"
    /\ agent_calls' = Append(agent_calls, AgentCall("generate_cover_image", 0, <<>>))
    /\ \E outcome \in CoverOutcomes :
          /\ saved' = Append(saved, [file |-> "cover", ok |-> outcome = "path",
                                     outcome |-> outcome])
          /\ IF outcome = "raised"
             THEN Raised(GatewayExhausted)
             ELSE or_pc' = "save_epub" /\ UNCHANGED orEnd
    /\ UNCHANGED <<save_intermediates, book_data, orLoop, orLocals>>
    /\ UNCHANGED notOr

\* lines 411-440, the cover image: None or an exception is logged and
\* cover_image_path is None
GenerateCover ==
    /\ or_pc = "cover"
    /\ agent_calls' = Append(agent_calls, AgentCall("generate_cover_image", 0, <<>>))
    /\ \E outcome \in CoverOutcomes :
          saved' = Append(saved, [file |-> "cover", ok |-> outcome = "path",
                                  outcome |-> outcome])
    /\ or_pc' = "save_epub"
    /\ UNCHANGED <<save_intermediates, book_data, orLoop, orLocals, orEnd>>
    /\ UNCHANGED notOr

\* line 443 and _save_as_epub: the EPUB is built with the cover image when
\* there is one, or the write raises
SaveAsEpub ==
    /\ or_pc = "save_epub"
    /\ LET cover_image_path == saved[Len(saved)].ok
       IN  \/ /\ saved' = Append(saved, [file |-> "epub", ok |-> TRUE,
                                         cover |-> cover_image_path])
              /\ or_pc' = "metadata" /\ UNCHANGED orEnd
           \/ /\ saved' = Append(saved, [file |-> "epub", ok |-> FALSE,
                                         cover |-> cover_image_path])
              /\ Raised(OSError)
    /\ UNCHANGED <<save_intermediates, book_data, orLoop, orLocals, agent_calls>>
    /\ UNCHANGED notOr

SaveMetadata == or_pc = "metadata" /\ WriteFile("book_metadata", "phase_end")

OrchestratorNext ==
    \/ Run \/ BeginPhase \/ CompletePhase \/ SaveMetrics
    \/ CreateOutline \/ ParseStructuredOutline \/ CreateCharacterProfiles \/ SavePlanning
    \/ WriteNextChapter \/ PerformInterimCheck \/ SaveChapter \/ SaveCreation
    \/ CheckStoryContinuity \/ ReviewStyleConsistency \/ AnalyzePacing \/ RefineDialogue
    \/ RefineChapter \/ ApplyContinuityFixes \/ ApplyStyleFixes \/ ApplyPacingFixes
    \/ ApplyDialogueFixes \/ UpdateChapter \/ SaveRefinement \/ RecordRevisions
    \/ EvaluateBookQuality \/ FixCriticalIssues \/ CriticalIssuesFixed
    \/ GenerateQaTitle \/ SaveQa
    \/ GeneratePublishingTitle \/ SaveAsText \/ GenerateCover \/ SaveAsEpub
    \/ SaveMetadata

OrchestratorSpecInit ==
    OrchestratorInit /\ GatewayOff /\ WriterOff /\ ChunkOff /\ OutlineOff /\ StatsOff
    /\ PhrasesOff /\ FixesOff /\ JsonOff

OrchestratorSpec == OrchestratorSpecInit /\ [][OrchestratorNext]_vars

(***************************************************************************)
(* Properties of the orchestrator.                                         *)
(***************************************************************************)
PhaseOrder == <<"planning", "creation", "refinement", "qa", "publishing">>

\* the phase whose method a position of run() belongs to, None for run() itself
PhaseAt(pc) ==
    CASE pc \in {"planning", "parse_outline", "character_profiles", "save_planning"}
           -> "planning"
      [] pc \in {"creation", "interim_check", "save_chapter"} -> "creation"
      [] pc \in {"refinement", "style", "pacing", "dialogue", "refine", "fix_continuity",
                 "fix_style", "fix_pacing", "fix_dialogue", "update_chapter",
                 "revisions"} -> "refinement"
      [] pc \in {"qa", "qa_fix", "qa_title", "save_qa"} -> "qa"
      [] pc \in {"publishing", "save_text", "cover", "save_epub", "metadata"}
           -> "publishing"
      [] OTHER -> None

\* C16: the phases begin in the order planning, creation, refinement, qa,
\* publishing; a phase begins only when every phase begun before it has
\* completed; no phase begins twice; and the steps of a phase are taken only
\* while it is the one begun last and not yet completed.
C16_PhasesInOrder ==
    /\ IsPrefix(phases_begun, PhaseOrder)
    /\ IsPrefix(phase_times, PhaseOrder)
    /\ Len(phases_begun) - Len(phase_times) \in {0, 1}
    /\ PhaseAt(or_pc) # None =>
          /\ phases_begun # <<>>
          /\ phases_begun[Len(phases_begun)] = PhaseAt(or_pc)
          /\ Len(phase_times) = Len(phases_begun) - 1

C16_Witness == phase_times = PhaseOrder /\ run_result = <<TRUE>>

\* the files that checkpoint the progress of a run
CheckpointFiles == {"planning", "creation", "refinement", "qa", "chapter"}

CheckpointFailed == \E k \in DOMAIN saved : saved[k].file \in CheckpointFiles /\ ~saved[k].ok

\* C17: checkpointing is best-effort: a checkpoint write that fails does not
\* stop the run (no exception reaches run(), so the phase completes and the
\* next phase begins), and a run without checkpoints is not stopped either.
C17_CheckpointBestEffort == CheckpointFailed => or_exc = <<>>

\* C18: exhausted providers stop the run only when chapter text could not be
\* produced: when the gateway's exception has reached run(), the call that
\* raised it was write_chapter; a failed create_outline leaves a placeholder
\* outline and the run goes on.
C18_OutlinePlaceholder ==
    or_exc = <<GatewayExhausted>> =>
        agent_calls[Len(agent_calls)].method = "write_chapter"

RefinementOrder == <<"continuity", "style", "pacing", "dialogue">>

FixMethods ==
    {"continuity_checker.apply_fixes", "style_reviewer.apply_fixes",
     "pacing_advisor.apply_fixes", "dialogue_expert.apply_fixes", "fix_critical_issues"}

\* the reviews of one type stored in the document
ReviewsOf(type) ==
    {book_data.reviews[j].report :
        j \in {k \in DOMAIN book_data.reviews : book_data.reviews[k].type = type}}

\* the chapters for which the stored report of an analysis lists fixes
ReportedFixes(type) == UNION {r.chapter_fixes : r \in ReviewsOf(type)}

\* the agents whose fixes chapter k is due, in the order of the fix chain
FixChain(k) == SelectSeq(RefinementOrder, LAMBDA t : k \in ReportedFixes(t))

\* the chapters QA is to fix: those named by a critical issue of a report
\* whose overall score is below the threshold
QaFixes ==
    UNION {IF BelowThreshold(r.overall) THEN r.critical_issues ELSE {} :
             r \in ReviewsOf("quality")}

CurrentPhase == IF phases_begun = <<>> THEN None ELSE phases_begun[Len(phases_begun)]

PhaseCompleted(p) == p \in Range(phase_times)

\* refinement has stored its text for chapter k
Refined(k) ==
    PhaseCompleted("refinement") \/ (CurrentPhase = "refinement" /\ k <= chapter_i)

\* the texts of chapter k that are whole: the creation text before its
\* refinement, then the text of its complete fix chain, then (once QA runs and
\* is to fix it) that text after the QA fix
WholeTexts(k) ==
    IF ~Refined(k) THEN {<<>>}
    ELSE {FixChain(k)} \cup
         (IF k \in QaFixes THEN {FixChain(k) \o <<"quality">>} ELSE {})

\* C19: the document never holds a partly processed chapter: every stored
\* chapter is the text written for its position, untouched or rewritten by a
\* fix chain that ran to its end; and when a fix step for chapter i has raised
\* (refinement or QA), chapter i and all later chapters hold the text they had
\* before and the number of chapters is the one creation left.
C19_NoPartialChapter ==
    LET cs == book_data.chapters
        lastCall == agent_calls[Len(agent_calls)]
    IN  /\ Len(cs) <= Len(book_data.structured_outline)
        /\ PhaseCompleted("creation") => Len(cs) = Len(book_data.structured_outline)
        /\ \A k \in DOMAIN cs : cs[k].draft = k /\ cs[k].fixed_by \in WholeTexts(k)
        /\ (or_exc = <<GatewayExhausted>> /\ lastCall.method \in FixMethods) =>
              /\ Len(cs) = Len(book_data.structured_outline)
              /\ \A j \in lastCall.num..Len(cs) :
                    cs[j].fixed_by = IF lastCall.method = "fix_critical_issues"
                                     THEN FixChain(j) ELSE <<>>

\* the style fixes of chapter 2 of 3 raise after its continuity fixes and the
\* whole chain of chapter 1 went through
C19_Witness ==
    /\ or_exc = <<GatewayExhausted>>
    /\ Len(book_data.chapters) = 3
    /\ agent_calls[Len(agent_calls)].method = "style_reviewer.apply_fixes"
    /\ agent_calls[Len(agent_calls)].num = 2
    /\ agent_calls[Len(agent_calls)].input[1].fixed_by = <<"continuity">>
    /\ book_data.chapters[1].fixed_by # <<>>

AnalysisMethods ==
    <<"check_story_continuity", "review_style_consistency", "analyze_pacing",
      "refine_dialogue">>

ApplyMethods ==
    <<"continuity_checker.apply_fixes", "style_reviewer.apply_fixes",
      "pacing_advisor.apply_fixes", "dialogue_expert.apply_fixes">>

\* the position of a method in a sequence of methods, 0 when it is not in it
IndexIn(methods, m) ==
    IF m \in Range(methods) THEN CHOOSE k \in DOMAIN methods : methods[k] = m ELSE 0

\* the number of calls in the log made to the given methods
CallsTo(methods) ==
    Cardinality({g \in DOMAIN agent_calls : agent_calls[g].method \in Range(methods)})

\* the agents of the fix chain that come before step s and have fixes for
\* chapter n: the rewrites the input of step s must carry, in order
ChainBefore(n, s) ==
    SelectSeq(SubSeq(RefinementOrder, 1, s - 1), LAMBDA t : n \in ReportedFixes(t))

\* a fix step as a number that grows chapter by chapter and, within a
\* chapter, step by step
ChainPosition(c) == 5 * c.num + IndexIn(ApplyMethods, c.method)

\* a step that calls an analysis: it is the next one in the order continuity,
\* style, pacing, dialogue, no fix was applied before it, and it gets the
\* full chapter set as creation left it
AnalysisInOrder(c) ==
    /\ CallsTo(AnalysisMethods) = IndexIn(AnalysisMethods, c.method) - 1
    /\ CallsTo(ApplyMethods) = 0
    /\ c.input = [j \in 1..Len(book_data.structured_outline) |-> ChapterText(j)]

\* a step that calls apply_fixes: the four analyses have returned, the
\* agent's report has fixes for the chapter, the step comes after all earlier
\* fix steps in chapter order and chain order, and its input is the chapter's
\* creation text rewritten by exactly the steps of the chain before it
FixInOrder(c) ==
    /\ CallsTo(AnalysisMethods) = 4
    /\ \A t \in Range(RefinementOrder) : ReviewsOf(t) # {}
    /\ c.num \in ReportedFixes(RefinementOrder[IndexIn(ApplyMethods, c.method)])
    /\ c.input = <<[draft |-> c.num,
                    fixed_by |-> ChainBefore(c.num, IndexIn(ApplyMethods, c.method))]>>
    /\ \A g \in DOMAIN agent_calls :
          agent_calls[g].method \in Range(ApplyMethods) =>
             ChainPosition(agent_calls[g]) < ChainPosition(c)

\* a step of refinement that changes the stored chapters: it replaces the
\* creation text of the chapter the loop is at by the text of its whole chain
\* and nothing else
FinalTextStored ==
    LET k == chapter_i + 1
    IN  /\ book_data.chapters[k] = ChapterText(k)
        /\ book_data'.chapters =
              [book_data.chapters EXCEPT ![k].fixed_by = ChainBefore(k, 5)]

\* C20: in refinement the four analyses are called in the order continuity,
\* style, pacing, dialogue, each over the full chapter set as creation left
\* it, and all four have returned before the first fix is applied; the fixes
\* are applied chapter by chapter in the order continuity, style, pacing,
\* dialogue, each step getting the text the step before it returned; and the
\* stored chapter is replaced only once, by the text of the last step.
C20_AnalysesThenOrderedFixes ==
    [][LET c == agent_calls'[Len(agent_calls')]
       IN  /\ agent_calls' # agent_calls =>
                 /\ c.method \in Range(AnalysisMethods) => AnalysisInOrder(c)
                 /\ c.method \in Range(ApplyMethods) => FixInOrder(c)
           /\ (CurrentPhase = "refinement" /\ book_data'.chapters # book_data.chapters)
                 => FinalTextStored]_vars

\* refinement has completed and a chapter went through all four fix steps
C20_Witness ==
    /\ PhaseCompleted("refinement")
    /\ \E k \in DOMAIN book_data.chapters :
          book_data.chapters[k].fixed_by = RefinementOrder


(***************************************************************************)
(* Claims about the creation phase.                                        *)
(***************************************************************************)

\* the agent call this step adds to the log, if it adds one
CallMade(method) ==
    /\ Len(agent_calls') = Len(agent_calls) + 1
    /\ agent_calls'[Len(agent_calls')].method = method

NewCall == agent_calls'[Len(agent_calls')]

\* C24: the context given for chapter k is made of the texts of chapters k-2
\* and k-1 that exist (none for chapter 1, one for chapter 2), never more than
\* two and never another chapter, and every excerpt is labelled with the
\* number of the chapter it is taken from.
C24_ContextOfLastTwo ==
    [][CallMade("write_chapter") =>
          LET k == NewCall.num
              context == NewCall.input
          IN  /\ k = Len(book_data.chapters) + 1
              /\ Len(context) = Min(2, k - 1)
              /\ \A i \in DOMAIN context :
                     /\ context[i].prev_idx = k - Len(context) + (i - 1)
                     /\ context[i].excerpts_of = book_data.chapters[context[i].prev_idx]
                     /\ context[i].excerpts_of.draft = context[i].prev_idx]_vars

\* C24 witness: the fourth chapter was asked for with chapters 2 and 3 as
\* context, chapter 1 left out
C24_Witness ==
    /\ agent_calls # <<>>
    /\ agent_calls[Len(agent_calls)].method = "write_chapter"
    /\ agent_calls[Len(agent_calls)].num = 4
    /\ Len(book_data.chapters) >= 3
    /\ agent_calls[Len(agent_calls)].input
           = <<[prev_idx |-> 2, excerpts_of |-> ChapterText(2)],
               [prev_idx |-> 3, excerpts_of |-> ChapterText(3)]>>

\* the chapter specs the creation loop has processed: a spec is processed
\* once its chapter was appended
ChaptersWhileCreating ==
    /\ or_pc = "creation" => Len(book_data.chapters) = chapter_i
    /\ or_pc \in {"interim_check", "save_chapter"} =>
           Len(book_data.chapters) = chapter_i + 1
    /\ \A i \in DOMAIN book_data.chapters : book_data.chapters[i].draft = i

\* every step leaves the list as long as it is with each text where it was,
\* or is a step of creation that appends the text of the next spec
ChaptersStep ==
    \/ /\ Len(book_data'.chapters) = Len(book_data.chapters)
       /\ \A i \in DOMAIN book_data.chapters :
              book_data'.chapters[i].draft = book_data.chapters[i].draft
    \/ /\ CurrentPhase = "creation"
       /\ book_data'.chapters
              = Append(book_data.chapters, ChapterText(Len(book_data.chapters) + 1))

\* C25: during creation the chapter list only grows by appending: after the
\* k-th spec is processed it holds k texts, the i-th generated from the i-th
\* spec; once creation is complete there are as many chapters as specs, and
\* no later phase adds, removes or reorders chapters.
C25_ChaptersOnlyAppended ==
    /\ [](/\ ChaptersWhileCreating
          /\ PhaseCompleted("creation") =>
                 Len(book_data.chapters) = Len(book_data.structured_outline))
    /\ [][ChaptersStep]_vars

\* C25 witness: four chapters were created and the run got as far as QA, which
\* rewrote the first of them in place
C25_Witness ==
    /\ CurrentPhase = "qa"
    /\ Len(book_data.chapters) = 4
    /\ book_data.chapters[1].draft = 1
    /\ "quality" \in Range(book_data.chapters[1].fixed_by)
    /\ book_data.chapters[4].draft = 4

\* the review entry an interim check after chapter n records
InterimReview(n) ==
    [type |-> "interim_continuity", chapter |-> n, report |-> [issues |-> TRUE]]

\* C26: during creation an interim continuity check runs after each chapter
\* whose number is a multiple of 3 and after no other chapter; it changes no
\* chapter text and no chapter spec, and all it does to the document is to
\* append one entry to the reviews when it reports issues.
C26_InterimCheckFrame ==
    [][/\ CallMade("quick_check") <=>
              (or_pc = "interim_check" /\ Len(book_data.chapters) % 3 = 0)
       /\ CallMade("quick_check") =>
              /\ NewCall.num = Len(book_data.chapters)
              /\ NewCall.num = chapter_i + 1
              /\ \/ book_data' = book_data
                 \/ book_data' = [book_data EXCEPT
                                     !.reviews = Append(@, InterimReview(NewCall.num))]]_vars

\* C26 witness: four chapters are written, one check was made, after the
\* third, and its issues are in the reviews
C26_Witness ==
    /\ Len(book_data.chapters) = 4
    /\ CallsTo(<<"quick_check">>) = 1
    /\ book_data.reviews = <<InterimReview(3)>>

(***************************************************************************)
(* Claims about the QA and publishing phases.                              *)
(***************************************************************************)

C29_WitnessAtThreshold ==
    /\ or_pc = "qa_title"
    /\ Len(book_data.chapters) >= 2
    /\ reports["quality"].scores = <<10, 10, 10, 4, 1>>
    /\ reports["quality"].critical_issues = DOMAIN book_data.chapters
    /\ \A i \in DOMAIN book_data.chapters :
           "quality" \notin Range(book_data.chapters[i].fixed_by)

\* the steps at which a title may be generated
TitleSteps == {"qa_title", "publishing"}

\* the positions of the publishing phase at which the packaging is invoked
\* or has been
Packaging == {"save_text", "cover", "save_epub", "metadata"}

\* a title is generated in QA and in publishing exactly when none is set at
\* that step, and a title that is set is never generated again or replaced
TitleGeneratedIffUnset ==
    /\ CallMade("generate_title") <=>
           (or_pc \in TitleSteps /\ book_data.metadata.title = "")
    /\ book_data.metadata.title # "" =>
           book_data'.metadata.title = book_data.metadata.title

\* C30: a title is generated in QA if and only if none is set when QA reaches
\* that step, and in publishing if and only if none is set then; a title once
\* set is never generated again or replaced, and the title is set when the
\* packaging is invoked.
C30_TitleLifecycle ==
    /\ [][TitleGeneratedIffUnset]_vars
    /\ [](or_pc \in Packaging => book_data.metadata.title # "")

\* the part of C30 that the code keeps
C30_GeneratedIffUnset == [][TitleGeneratedIffUnset]_vars

\* the title generated in QA was empty, publishing generated one again, and
\* the second one was kept
C30_SecondGenerationWitness ==
    /\ or_pc \in Packaging
    /\ CallsTo(<<"generate_title">>) = 2
    /\ book_data.metadata.title # ""

(***************************************************************************)
(*   apply_fixes  (agents/dialogue_expert.py, style_reviewer.py,           *)
(*                 continuity_checker.py)                                  *)
(*                                                                         *)
(* One call of an agent's apply_fixes(chapter, issues). The chapter is a   *)
(* sequence of one-character passages that issues may quote, plus          *)
(* af_filler characters of text that no issue quotes. An issue has the     *)
(* flagged text (`original` for the dialogue expert, `text` for the        *)
(* others) and its replacement (`improved`, `fix`). The answer of a        *)
(* rewrite call is the text "r".                                           *)
(***************************************************************************)

\* longest quotable part of a chapter
MaxFixChapterLen == 2
\* most issues in a fix set
MaxIssues == 2

\* dialogue_expert.py line 349: len(chapter) > 8000
DialogueRewriteLimit == 8000
\* style_reviewer.py line 196: len(chapter) > 10000
StyleRewriteLimit == 10000

FixAgents == {"continuity", "style", "dialogue"}

FixChapters == SeqsUpTo({"a", "b"}, MaxFixChapterLen)

\* the rest of the chapter: nothing, or enough to reach a limit of the code
Fillers == {0, DialogueRewriteLimit, StyleRewriteLimit}

FixIssues ==
    {[original |-> o, improved |-> f] :
        o \in {<<>>, <<"a">>, <<"b">>}, f \in {<<>>, <<"b">>, <<"c">>}}

FixSetsOfIssues == SeqsUpTo(FixIssues, MaxIssues)

\* the answer of the model to a rewrite prompt
RewrittenChapter == <<"r">>

\* original_text in chapter, for a text that is not empty
Occurs(text, t) ==
    \E i \in 1..(Len(t) - Len(text) + 1) : SubSeq(t, i, i + Len(text) - 1) = text

RECURSIVE ReplaceAll(_, _, _)
\* chapter.replace(old, new) for old not empty: every occurrence, from the left
ReplaceAll(t, old, new) ==
    IF Len(t) < Len(old) THEN t
    ELSE IF SubSeq(t, 1, Len(old)) = old
         THEN new \o ReplaceAll(SubSeq(t, Len(old) + 1, Len(t)), old, new)
         ELSE <<Head(t)>> \o ReplaceAll(Tail(t), old, new)

\* len(chapter)
ChapterChars == af_filler + Len(af_chapter)

\* dialogue_expert.py line 307, style_reviewer.py line 217
CanReplace(issue) ==
    issue.original # <<>> /\ issue.improved # <<>> /\ Occurs(issue.original, af_chapter)

\* dialogue_expert.py lines 312-317: the issues listed in the rewrite prompt
RemainingIssues ==
    SelectSeq([i \in DOMAIN af_issues |-> i],
              LAMBDA i : /\ af_issues[i].original # <<>>
                         /\ ~Occurs(af_issues[i].original, af_chapter))

\* a limit of 10000 characters for the dialogue rewrite
TooLongForRevisionAtStyleLimit == ChapterChars > StyleRewriteLimit

\* dialogue_expert.py line 349
TooLongForRevision == ChapterChars > DialogueRewriteLimit

\* one self.generate call with a rewrite prompt: the issues it lists, by
\* position in the fix set, and the chapter text it quotes
RewritePrompt(listed) ==
    [agent |-> af_agent, chapter |-> af_chapter, filler |-> af_filler, issues |-> listed]

FixesInit ==
    /\ af_pc = "call"
    /\ af_agent \in FixAgents
    /\ af_input \in FixChapters
    /\ af_chapter = af_input
    /\ af_filler \in Fillers
    /\ af_issues \in FixSetsOfIssues
    /\ af_i = 0
    /\ af_replaced = {}
    /\ af_calls = <<>>
    /\ af_result = <<>>

\* the rewrite call returns the revised chapter or the gateway is exhausted
Rewrite(listed) ==
    /\ af_calls' = Append(af_calls, RewritePrompt(listed))
    /\ \/ af_result' = RewrittenChapter /\ af_pc' = "returned"
       \/ af_result' = af_result /\ af_pc' = "raised"

\* `if not issues: return chapter` of all three agents
NoIssues ==
    /\ af_pc = "call"
    /\ af_issues = <<>>
    /\ af_result' = af_chapter
    /\ af_pc' = "returned"
    /\ UNCHANGED <<af_agent, af_input, af_filler, af_chapter, af_issues, af_i,
                   af_replaced, af_calls>>
    /\ UNCHANGED notAf

\* continuity_checker.apply_fixes: one prompt with the chapter and all issues
ContinuityRewrite ==
    /\ af_pc = "call"
    /\ af_agent = "continuity"
    /\ af_issues # <<>>
    /\ Rewrite([i \in DOMAIN af_issues |-> i])
    /\ UNCHANGED <<af_agent, af_input, af_filler, af_chapter, af_issues, af_i,
                   af_replaced>>
    /\ UNCHANGED notAf

\* style_reviewer.apply_fixes, a chapter of at most 10000 characters: one
\* prompt with all issues
StyleRewrite ==
    /\ af_pc = "call"
    /\ af_agent = "style"
    /\ af_issues # <<>>
    /\ ChapterChars <= StyleRewriteLimit
    /\ Rewrite([i \in DOMAIN af_issues |-> i])
    /\ UNCHANGED <<af_agent, af_input, af_filler, af_chapter, af_issues, af_i,
                   af_replaced>>
    /\ UNCHANGED notAf

\* style_reviewer.apply_fixes, a longer chapter: _apply_fixes_to_long_chapter
StyleLongChapter ==
    /\ af_pc = "call"
    /\ af_agent = "style"
    /\ af_issues # <<>>
    /\ ChapterChars > StyleRewriteLimit
    /\ af_i' = 1
    /\ af_pc' = "replace"
    /\ UNCHANGED <<af_agent, af_input, af_filler, af_chapter, af_issues, af_replaced,
                   af_calls, af_result>>
    /\ UNCHANGED notAf

\* dialogue_expert.apply_fixes: direct replacements first, whatever the length
DialogueReplacements ==
    /\ af_pc = "call"
    /\ af_agent = "dialogue"
    /\ af_issues # <<>>
    /\ af_i' = 1
    /\ af_pc' = "replace"
    /\ UNCHANGED <<af_agent, af_input, af_filler, af_chapter, af_issues, af_replaced,
                   af_calls, af_result>>
    /\ UNCHANGED notAf

\* one pass of the replacement loop: dialogue_expert.py lines 302-308,
\* style_reviewer.py lines 213-218
ReplaceIssue ==
    /\ af_pc = "replace"
    /\ af_i <= Len(af_issues)
    /\ IF CanReplace(af_issues[af_i])
       THEN /\ af_chapter' = ReplaceAll(af_chapter, af_issues[af_i].original,
                                        af_issues[af_i].improved)
            /\ af_replaced' = af_replaced \cup {af_i}
       ELSE UNCHANGED <<af_chapter, af_replaced>>
    /\ af_i' = af_i + 1
    /\ UNCHANGED <<af_pc, af_agent, af_input, af_filler, af_issues, af_calls, af_result>>
    /\ UNCHANGED notAf

\* style_reviewer.py line 220: the long chapter is returned as replaced
StyleReturns ==
    /\ af_pc = "replace"
    /\ af_agent = "style"
    /\ af_i > Len(af_issues)
    /\ af_result' = af_chapter
    /\ af_pc' = "returned"
    /\ UNCHANGED <<af_agent, af_input, af_filler, af_chapter, af_issues, af_i,
                   af_replaced, af_calls>>
    /\ UNCHANGED notAf

\* dialogue_expert.py lines 310-356: the issues whose text is not in the
\* chapter now go to one rewrite call, unless there are none or the chapter
\* is longer than 8000 characters
DialogueRemaining ==
    /\ af_pc = "replace"
    /\ af_agent = "dialogue"
    /\ af_i > Len(af_issues)
    /\ IF RemainingIssues # <<>> /\ ~TooLongForRevision
       THEN Rewrite(RemainingIssues)
       ELSE /\ af_result' = af_chapter
            /\ af_pc' = "returned"
            /\ UNCHANGED af_calls
    /\ UNCHANGED <<af_agent, af_input, af_filler, af_chapter, af_issues, af_i,
                   af_replaced>>
    /\ UNCHANGED notAf

FixesNext ==
    \/ NoIssues
    \/ ContinuityRewrite
    \/ StyleRewrite
    \/ StyleLongChapter
    \/ DialogueReplacements
    \/ ReplaceIssue
    \/ StyleReturns
    \/ DialogueRemaining

FixesSpecInit ==
    FixesInit /\ GatewayOff /\ WriterOff /\ ChunkOff /\ OutlineOff /\ StatsOff
    /\ PhrasesOff /\ OrchestratorOff /\ JsonOff

FixesSpec == FixesSpecInit /\ [][FixesNext]_vars

(***************************************************************************)
(* Claims about fix application.                                           *)
(***************************************************************************)

RECURSIVE SubstitutedText(_, _)
\* the text after the issues were gone through in order, each one whose
\* flagged text occurs in the text as it then is being replaced
SubstitutedText(t, issues) ==
    IF issues = <<>> THEN t
    ELSE LET issue == Head(issues)
         IN  IF issue.original # <<>> /\ issue.improved # <<>> /\ Occurs(issue.original, t)
             THEN SubstitutedText(ReplaceAll(t, issue.original, issue.improved),
                                  Tail(issues))
             ELSE SubstitutedText(t, Tail(issues))

RECURSIVE Unlocated(_, _)
\* how many issues find their flagged text gone when their turn comes
Unlocated(t, issues) ==
    IF issues = <<>> THEN 0
    ELSE LET issue == Head(issues)
         IN  IF Occurs(issue.original, t)
             THEN Unlocated(ReplaceAll(t, issue.original, issue.improved), Tail(issues))
             ELSE 1 + Unlocated(t, Tail(issues))

\* every issue has a flagged text and a replacement
PlainIssues ==
    \A i \in DOMAIN af_issues :
        af_issues[i].original # <<>> /\ af_issues[i].improved # <<>>

\* the chapter passed in is long by every limit of the code
LongChapter == af_filler + Len(af_input) > StyleRewriteLimit

\* C27: when a fix set is applied to a long chapter, every fix whose flagged
\* text still occurs in the chapter as modified so far is applied by
\* exact-text substitution, and if some flagged text cannot be located
\* exactly one rewrite call is made.
C27_LongChapterFixes ==
    (af_pc \in {"returned", "raised"} /\ LongChapter /\ PlainIssues) =>
        /\ af_chapter = SubstitutedText(af_input, af_issues)
        /\ Unlocated(af_input, af_issues) > 0 => Len(af_calls) = 1

\* C27 as the code has it: the dialogue expert substitutes in order, whatever
\* the length, and then makes at most one rewrite call, none for a chapter
\* that is longer than 8000 characters after the substitutions; the style
\* reviewer substitutes only in a chapter longer than 10000 characters and
\* then makes no rewrite call, and makes one rewrite call without
\* substitution otherwise; the continuity checker never substitutes and
\* makes one rewrite call that lists all issues.
C27_FixApplicationByAgent ==
    (af_pc \in {"returned", "raised"} /\ af_issues # <<>>) =>
        CASE af_agent = "dialogue" ->
                 /\ af_chapter = SubstitutedText(af_input, af_issues)
                 /\ Len(af_calls) <= 1
                 /\ ChapterChars > DialogueRewriteLimit =>
                        af_calls = <<>> /\ af_result = af_chapter
          [] af_agent = "style" ->
                 IF af_filler + Len(af_input) > StyleRewriteLimit
                 THEN /\ af_chapter = SubstitutedText(af_input, af_issues)
                      /\ af_calls = <<>>
                      /\ af_result = af_chapter
                 ELSE /\ af_chapter = af_input
                      /\ Len(af_calls) = 1
          [] af_agent = "continuity" ->
                 /\ af_chapter = af_input
                 /\ Len(af_calls) = 1
                 /\ af_calls[1].issues = [i \in DOMAIN af_issues |-> i]

\* C27 witness: in a chapter of more than 8000 characters the dialogue expert
\* replaced one flagged text, could not find another, and returned the
\* chapter without a rewrite call
C27_Witness ==
    /\ af_pc = "returned"
    /\ af_agent = "dialogue"
    /\ PlainIssues
    /\ ChapterChars > DialogueRewriteLimit
    /\ Len(af_issues) = 2
    /\ af_replaced = {1}
    /\ af_issues[2].original \notin {af_issues[1].original, af_issues[1].improved}
    /\ ~Occurs(af_issues[2].original, af_input)
    /\ af_calls = <<>>
    /\ af_result = af_chapter
    /\ af_chapter # af_input

\* C28: the rewrite call of the dialogue expert lists only issues that
\* substitution did not resolve: an issue whose flagged text was found and
\* replaced is never listed, and when every issue was resolved by
\* substitution no rewrite call is made.
C28_RewriteListsUnresolved ==
    (af_agent = "dialogue" /\ af_pc \in {"returned", "raised"}) =>
        /\ \A c \in DOMAIN af_calls : Range(af_calls[c].issues) \cap af_replaced = {}
        /\ af_replaced = DOMAIN af_issues => af_calls = <<>>

\* what the code does instead: in a chapter short enough for a rewrite, every
\* issue that was replaced and whose text is gone is listed in a rewrite call
C28_ReplacedAreListed ==
    (/\ af_agent = "dialogue" /\ af_pc \in {"returned", "raised"}
     /\ ~TooLongForRevision)
    => \A i \in af_replaced :
           ~Occurs(af_issues[i].original, af_chapter) =>
               /\ Len(af_calls) = 1
               /\ i \in Range(af_calls[1].issues)

(***************************************************************************)
(* Claims about the chapter plan, the reviews and run().                   *)
(***************************************************************************)

\* a step leaves the chapter plan as long as it was and every entry with its
\* summary and its target word count
PlanKeepsContent ==
    /\ Len(book_data'.structured_outline) = Len(book_data.structured_outline)
    /\ \A i \in DOMAIN book_data.structured_outline :
           /\ book_data'.structured_outline[i].summary
                  = book_data.structured_outline[i].summary
           /\ book_data'.structured_outline[i].word_count
                  = book_data.structured_outline[i].word_count

\* a step leaves every entry of the chapter plan with its index
PlanKeepsIndices ==
    \A i \in DOMAIN book_data.structured_outline :
        book_data'.structured_outline[i].chapter_num
            = book_data.structured_outline[i].chapter_num

\* C31: once planning is complete no phase changes the number, the order,
\* the index, the summary or the target word count of an entry of the
\* chapter plan; only its title may be overwritten.
C31_ChapterPlanFrame ==
    [][PhaseCompleted("planning") => (PlanKeepsContent /\ PlanKeepsIndices)]_vars

\* what the code keeps of C31: number, order, summaries and word counts
\* always, and the indices of a plan that the parser numbered 1..n
C31_FrameButIndex ==
    [][PhaseCompleted("planning") =>
          /\ PlanKeepsContent
          /\ (\A i \in DOMAIN book_data.structured_outline :
                  book_data.structured_outline[i].chapter_num = i) => PlanKeepsIndices]_vars

\* the entries of `saved` for a file
Saved(file) == {k \in DOMAIN saved : saved[k].file = file}

\* the cover image was asked for and there is none
CoverFailed == \E k \in Saved("cover") : ~saved[k].ok

\* a write of a file has failed
WriteFailed == \E k \in DOMAIN saved : saved[k].file # "cover" /\ ~saved[k].ok

\* C33: a failure of the cover image in publishing, an exception or an empty
\* result, is not fatal: no exception comes of it, the EPUB is still built,
\* without a cover, the metadata file is still written and run() returns
\* True.
C33_CoverFailureNonFatal ==
    CoverFailed =>
        /\ or_exc # <<>> => WriteFailed
        /\ \A k \in Saved("epub") : ~saved[k].cover
        /\ (or_pc = "returned" /\ ~WriteFailed) =>
               /\ run_result = <<TRUE>>
               /\ Saved("epub") # {}
               /\ Saved("book_metadata") # {}

\* C33 witness: the cover designer raised, and run() has returned True after
\* an EPUB without cover and the metadata file were written
C33_Witness ==
    /\ or_pc = "returned"
    /\ run_result = <<TRUE>>
    /\ \E k \in Saved("cover") : saved[k].outcome = "raised"
    /\ \E k \in Saved("epub") : saved[k].ok /\ ~saved[k].cover
    /\ \E k \in Saved("book_metadata") : saved[k].ok

\* the cover designer returned None and run() has returned True
C33_WitnessNone ==
    /\ or_pc = "returned"
    /\ run_result = <<TRUE>>
    /\ \E k \in Saved("cover") : saved[k].outcome = "None"
    /\ \E k \in Saved("epub") : saved[k].ok /\ ~saved[k].cover

\* the types of the reviews of the whole book, in the order they have in the
\* review log
BookReviewTypes ==
    LET whole == SelectSeq(book_data.reviews, LAMBDA r : r.type # "interim_continuity")
    IN  [k \in DOMAIN whole |-> whole[k].type]

\* the order in which refinement and QA append their reviews
ReviewOrder == <<"continuity", "style", "pacing", "dialogue", "quality">>

\* the interim reviews of creation come before the reviews of the whole book
InterimReviewsFirst ==
    \A j, k \in DOMAIN book_data.reviews :
        (/\ book_data.reviews[j].type # "interim_continuity"
         /\ book_data.reviews[k].type = "interim_continuity") => k < j

\* C35: the review log is append-only over the whole run: every step leaves
\* it unchanged or appends at its end, so an entry stays at its position with
\* its content; refinement appends its four entries in the order continuity,
\* style, pacing, dialogue, and QA appends the quality entry after them.
C35_ReviewLogAppendOnly ==
    /\ [][IsPrefix(book_data.reviews, book_data'.reviews)]_vars
    /\ [](/\ IsPrefix(BookReviewTypes, ReviewOrder)
          /\ InterimReviewsFirst
          /\ PhaseCompleted("refinement") => Len(BookReviewTypes) >= 4
          /\ PhaseCompleted("qa") => BookReviewTypes = ReviewOrder)

\* C35 witness: an interim review of creation, the four reviews of refinement
\* and the quality review of QA are in the log of a finished run
C35_Witness ==
    /\ or_pc = "returned"
    /\ Len(book_data.reviews) = 6
    /\ book_data.reviews[1].type = "interim_continuity"
    /\ BookReviewTypes = ReviewOrder

\* all five phases have completed without raising
AllPhasesCompleted == phase_times = PhaseOrder

\* an exception has left a phase method: run() has caught one before the
\* metrics were due
PhaseRaised == or_exc # <<>> /\ ~AllPhasesCompleted

\* the metrics file has been written
MetricsSaved == \E k \in Saved("metrics") : saved[k].ok

\* what run() does when a phase raises: it returns False, the exception stays
\* inside, no later phase is started and the metrics are not saved
PhaseFailureStopsRun ==
    PhaseRaised =>
        /\ or_pc = "returned" /\ run_result = <<FALSE>>
        /\ Len(phases_begun) = Len(phase_times) + 1
        /\ Saved("metrics") = {}

\* C40: run() returns True if and only if all five phases completed without
\* raising; if a phase raises, run() returns False without propagating the
\* exception, no later phase is started and the execution metrics are not
\* saved.
C40_TrueIffAllPhases ==
    /\ [](or_pc = "returned" => (run_result = <<TRUE>> <=> AllPhasesCompleted))
    /\ []PhaseFailureStopsRun
    /\ [][PhaseRaised => (phases_begun' = phases_begun /\ saved' = saved)]_vars

\* what does hold: True is returned exactly when the five phases completed
\* and the metrics file was written after them
C40_TrueIffAllPhasesAndMetrics ==
    /\ [](or_pc = "returned" =>
             (run_result = <<TRUE>> <=> (AllPhasesCompleted /\ MetricsSaved)))
    /\ []PhaseFailureStopsRun
    /\ [][PhaseRaised => (phases_begun' = phases_begun /\ saved' = saved)]_vars

\* the five phases completed, the metrics write failed and run() returned
\* False
C40_MetricsFailureWitness ==
    /\ or_pc = "returned"
    /\ AllPhasesCompleted
    /\ run_result = <<FALSE>>
    /\ or_exc = <<OSError>>

(***************************************************************************)
(*   Agent.parse_json_response  (core/agent.py)                            *)
(*                                                                         *)
(* One call of parse_json_response(response, default) made by              *)
(* quick_check, whose result _perform_interim_check reads with .get. The   *)
(* response is a sequence of pieces of text: the two fences of a json      *)
(* block, four JSON documents, a letter and a space. A value is            *)
(* [type, keys]: the Python type and, for a dict, its keys.                *)
(***************************************************************************)

\* longest response, in pieces
MaxResponseTokens == 3

\* the opening of a json block: three backquotes, json, a newline
Fence == "<json>"
\* the end of a block: a newline and three backquotes
FenceEnd == "</json>"
Blank == " "

Dict(keys) == [type |-> "dict", keys |-> keys]

\* the pieces that are JSON documents, and what json.loads makes of them
JsonDocuments ==
    [t \in {"{\"issues\": [1]}", "{}", "[]", "null"} |->
        CASE t = "{\"issues\": [1]}" -> Dict({"issues"})
          [] t = "{}" -> Dict({})
          [] t = "[]" -> [type |-> "list", keys |-> {}]
          [] t = "null" -> [type |-> "NoneType", keys |-> {}]]

ResponsePieces == DOMAIN JsonDocuments \cup {Fence, FenceEnd, Blank, "x"}

Responses == SeqsUpTo(ResponsePieces, MaxResponseTokens)

\* the default quick_check passes (line 76), or no default
QuickCheckDefault == Dict({"issues", "suggestions"})
Defaults == {<<>>, <<QuickCheckDefault>>}

\* lines 133-137: the first match of re.findall for a fenced json block, the
\* text between the first fence that is closed and the first end behind it
FirstJsonBlock(response) ==
    LET opens == {i \in DOMAIN response :
                     /\ response[i] = Fence
                     /\ \E j \in DOMAIN response : j > i /\ response[j] = FenceEnd}
    IN  IF opens = {} THEN <<>>
        ELSE LET i == SetMin(opens)
                 j == SetMin({j \in DOMAIN response : j > i /\ response[j] = FenceEnd})
             IN  <<Slice(response, i + 1, j - 1)>>

\* json.loads: one document, with blanks around it at most; anything else is
\* a JSONDecodeError, the empty result here
JsonLoads(json_str) ==
    LET documents == SelectSeq(json_str, LAMBDA t : t # Blank)
    IN  IF Len(documents) = 1 /\ documents[1] \in DOMAIN JsonDocuments
        THEN <<JsonDocuments[documents[1]]>>
        ELSE <<>>

\* lines 126-150: the value parse_json_response returns
ParsedOrDefault(response, default) ==
    LET block == FirstJsonBlock(response)
        loaded == JsonLoads(IF block # <<>> THEN block[1] ELSE response)
    IN  IF loaded # <<>> THEN loaded[1]
        ELSE IF default = <<>> THEN Dict({}) ELSE default[1]

JsonInit ==
    /\ pj_pc = "call"
    /\ pj_response \in Responses
    /\ pj_default \in Defaults
    /\ pj_result = <<>>
    /\ pj_exc = <<>>

\* parse_json_response returns
ParseJsonResponse ==
    /\ pj_pc = "call"
    /\ pj_result' = <<ParsedOrDefault(pj_response, pj_default)>>
    /\ pj_pc' = "parsed"
    /\ UNCHANGED <<pj_response, pj_default, pj_exc>>
    /\ UNCHANGED notPj

\* orchestrator.py line 461: check_results.get("issues", []) on a dict
InterimCheckReads ==
    /\ pj_pc = "parsed"
    /\ pj_result[1].type = "dict"
    /\ pj_pc' = "read"
    /\ UNCHANGED <<pj_response, pj_default, pj_result, pj_exc>>
    /\ UNCHANGED notPj

\* orchestrator.py line 461: a list or None has no attribute 'get'
InterimCheckRaises ==
    /\ pj_pc = "parsed"
    /\ pj_result[1].type # "dict"
    /\ pj_exc' = <<"AttributeError">>
    /\ pj_pc' = "raised"
    /\ UNCHANGED <<pj_response, pj_default, pj_result>>
    /\ UNCHANGED notPj

JsonNext ==
    \/ ParseJsonResponse
    \/ InterimCheckReads
    \/ InterimCheckRaises

JsonSpecInit ==
    JsonInit /\ GatewayOff /\ WriterOff /\ ChunkOff /\ OutlineOff /\ StatsOff
    /\ PhrasesOff /\ OrchestratorOff /\ FixesOff

JsonSpec == JsonSpecInit /\ [][JsonNext]_vars

(***************************************************************************)
(* Claims about parse_json_response.                                       *)
(***************************************************************************)

\* the value the caller's default stands for
SuppliedDefault == IF pj_default = <<>> THEN Dict({}) ELSE pj_default[1]

\* C32: for any response parse_json_response does not raise and returns the
\* parsed value or the supplied default; the value returned is always a
\* mapping, so that no output of the model reaches a caller as a type error.
C32_AlwaysMapping ==
    /\ pj_pc \in {"parsed", "read", "raised"} =>
           /\ pj_result[1] \in Range(JsonDocuments) \cup {SuppliedDefault}
           /\ pj_result[1].type = "dict"
    /\ pj_exc = <<>>

\* what the code keeps of C32: the call returns, and returns a parsed
\* document or the default
C32_ParsedOrDefault ==
    pj_pc \in {"parsed", "read", "raised"} =>
        /\ pj_result # <<>>
        /\ pj_result[1] \in Range(JsonDocuments) \cup {SuppliedDefault}
        /\ (JsonLoads(pj_response) = <<>> /\ FirstJsonBlock(pj_response) = <<>>)
               => pj_result[1] = SuppliedDefault
====
